---------------------------- MODULE Spec2Model ----------------------------
(***************************************************************************)
(* Model of the bulk ingestion pipeline of scripts/ingest_data.py: the     *)
(* orchestrator main(), its row-count checkpoint, and the five table       *)
(* loaders with their batching and commit discipline.                      *)
(*                                                                         *)
(* The database is modelled by what the script can observe of it: db[t]   *)
(* is the committed content of table t (source row numbers, in insertion   *)
(* order) and txn[t] the rows the session has inserted and not yet         *)
(* committed.  A source file is its row count nrows[t]; row i of a file    *)
(* is the number i.  df is the row count of the DataFrame the running      *)
(* loader read from its file.                                              *)
(***************************************************************************)
EXTENDS Integers, Sequences, FiniteSets, TLC

\* ------------------------------------------------------------------ bounds
\* Rows per source file: 0 .. MaxRows.
MaxRows == 3
\* Runs of the script (process starts) in one behaviour.
MaxRuns == 2
\* Commands that replace or remove the source files in one behaviour.
MaxChanges == 1
\* Runs of the script that manage.py starts in one behaviour.
MaxManageRuns == 1
\* Rows per source file where manage.py is at work: 0 .. MaxManageRows.
MaxManageRows == 2
\* The batch size.  The script sets 5000 (ingest_data.py:20); the model
\* scales it down so that files of 0 .. MaxRows rows give no batch, one
\* partial batch, one full batch, and a full batch followed by a partial one.
BATCH_SIZE == 2

\* ------------------------------------------------------------------ tables
\* The five tables in the order main() names them; a table is its index.
TableOrder == <<"entities", "officers", "intermediaries", "addresses", "relationships">>
Tables == 1 .. Len(TableOrder)
Entities == 1

\* stats has no entry for the table yet.
NoStat == -1

\* No run has read the table's source file since it was written.
NotRead == -1

\* The table's source file is not in the data directory.
Missing == -2

\* The CSV files of the data directory that no loader reads, as one more
\* file: nodes-others.csv of the archive.
OtherCsv == Len(TableOrder) + 1

\* The CSV files of the data directory.
Files == Tables \cup {OtherCsv}

VARIABLES
    nrows,          \* [Files -> Nat]: rows of each CSV file of the data directory
    changes,        \* commands that replaced or removed the source files so far
    job,            \* the command of manage.py at work on the source files: its kind,
                    \* the files it has yet to handle, the file it has open, the
                    \* rows of each CSV file of its archive
    db,             \* [Tables -> Seq(Nat)]: committed rows of each table
    txn,            \* [Tables -> Seq(Nat)]: inserted, uncommitted rows of the session
    pc,             \* position of the process; "idle" when no process runs
    cur,            \* the table main() is at
    df,             \* rows of the loader's DataFrame; NotRead when it has none
    idx,            \* rows of the DataFrame the loader's for-loop has taken
    records,        \* the loader's pending batch
    total_loaded,   \* the loader's counter
    errors,         \* len(errors) of load_entities
    final,          \* the flush under way is the one after the loop
    stats,          \* main's stats dict
    raisedBy,       \* "none", or what raised the exception that is propagating
    summary,        \* the 'Ingestion Complete' block was printed in this run
    warned,         \* load_entities reported batch errors in this run
    runs,           \* runs started so far
    interrupted,    \* some finished run ended by an exception or a kill
    dropped,        \* some finished run reported entities batch errors
    decision,       \* per table, this run: "none", "load" (loader invoked), "skip"
    order,          \* tables whose guard this run evaluated, in order
    calls,          \* batches this loader passed to executemany, in order
    failed,         \* indices in calls of the batches whose write failed
    via,            \* who started the process: "cli", or "manage" (manage.py data ingest)
    password,       \* main's password
    errmsg,         \* the "Error: ..." line main printed before returning, or "none"
    opened,         \* connections the run has opened
    closed,         \* connection.close() calls of the run that returned
    complete_msg,   \* manage.py printed 'Data ingestion complete!'
    printed,        \* the numbers of the summary, in the order printed
    fn,             \* the function applied to input, "none" before
    input,          \* the arguments of one call of a function of the script
    output,         \* what the call returned
    other           \* the frame of a second process while the first one runs

\* What outlives a process.
past == <<runs, interrupted, dropped>>
\* The frame of main, and what the model records of its run.
mainVars == <<cur, stats, raisedBy, summary, warned, decision, order>>
\* The frame of a loader, and what the model records of its calls.
loaderVars == <<df, idx, records, total_loaded, errors, final, calls, failed>>

\* The start and the end of the process: its arguments, its credentials,
\* its connection, and what its parent printed.
procVars == <<via, password, errmsg, opened, closed, complete_msg, printed>>

\* One call of a function of the script, checked by itself.
callVars == <<fn, input, output>>

vars == <<nrows, changes, job, db, txn, pc, past, mainVars, loaderVars, procVars, callVars, other>>

\* ----------------------------------------------------------------- helpers
RECURSIVE Iota(_)
\* <<1, ..., n>>: the rows of a file of n rows, in source order.
Iota(n) == IF n = 0 THEN <<>> ELSE Append(Iota(n - 1), n)

\* SELECT COUNT(*) FROM table, as the session of the run sees it: what the
\* query gives when it returns (CountFail is the query that raises).
table_count(t) == Len(db[t]) + Len(txn[t])

\* Mutant of HasData: no guard, every run loads every table.
HasDataNever(t) == FALSE

\* Mutant of HasData: every guard pasted from the first one, counting entities.
HasDataPasted(t) == table_count(Entities) > 0

\* `if table_count(t) > 0:` of main.
HasData(t) == table_count(t) > 0

\* Mutant of BatchFull: `>` for `>=`.
BatchFullLate(recs) == Len(recs) > BATCH_SIZE

\* `if len(records) >= BATCH_SIZE:` of every loader.
BatchFull(recs) == Len(recs) >= BATCH_SIZE

\* Mutants of CatchesBatchError: no loader has the try / except; every loader has it.
CatchesNone(t) == FALSE

CatchesAll(t) == TRUE

\* Only load_entities wraps its writes in try / except oracledb.Error.
CatchesBatchError(t) == t = Entities

\* Mutant of Rollback: the except block without its connection.rollback().
RollbackMissing(tx) == tx

\* connection.rollback(): the session's uncommitted rows are discarded.
Rollback(tx) == [t \in Tables |-> <<>>]

\* Mutant of Commit: the loaders without their connection.commit().
CommitMissing(d, tx) == d

\* connection.commit(): the session's uncommitted rows become committed.
Commit(d, tx) == [t \in Tables |-> d[t] \o tx[t]]

\* Mutant of NextTable: the intermediaries and addresses blocks swapped.
NextTableSwapped(t) ==
    CASE t = 2 -> 4
      [] t = 4 -> 3
      [] t = 3 -> 5
      [] OTHER -> t + 1

\* The statement after table t's if / else block in main.
NextTable(t) == t + 1

\* Mutant of RaisePc: the loader's exception is swallowed and main goes on
\* as if the loader had returned.
RaisePcSwallowed == "ret"

\* Mutant of RaisePc: connection.close() after the try block and not in a
\* finally clause.
RaisePcNoFinally == "exit"

\* main has try / finally and no except: an exception leaves the try block
\* for the finally clause.
RaisePc == "close"

\* Mutant of CountLoaded: every batch counted as a full one.
CountLoadedFull(total, recs) == total + BATCH_SIZE

\* `total_loaded += len(records)` after a commit.
CountLoaded(total, recs) == total + Len(recs)

RECURSIVE Sum(_)
\* sum(stats.values())
Sum(counts) ==
    IF counts = <<>> THEN 0
    ELSE Sum(SubSeq(counts, 1, Len(counts) - 1)) + counts[Len(counts)]

\* ------------------------------------------------------------- credentials
\* Strings are sequences of characters; a secret is one opaque character.
None == <<"None">>

PANAMA_PAPERS == <<"P", "A", "N", "A", "M", "A", "_", "P", "A", "P", "E", "R", "S">>

\* The literal 'PanamaPapers2024!'.
DefaultPassword == <<"PanamaPapers2024!">>

\* The literal 'ADB_ADMIN_PASSWORD=', one token of a line of the .env file.
KeyPrefix == "ADB_ADMIN_PASSWORD="

\* The characters str.strip() removes, those str.isspace() is true of; a
\* character TLA+ has no escape for is written as Python writes it.
Whitespace ==
    { " ", "\t", "\n", "\r", "\f", "\\x0b", "\\x1c", "\\x1d", "\\x1e", "\\x1f",
      "\\x85", "\\xa0", "\\u1680", "\\u2000", "\\u2001", "\\u2002", "\\u2003",
      "\\u2004", "\\u2005", "\\u2006", "\\u2007", "\\u2008", "\\u2009", "\\u200a",
      "\\u2028", "\\u2029", "\\u202f", "\\u205f", "\\u3000" }

Quotes == {"\"", "'"}

\* Mutant of UpperChar: the user name compared as typed.
SameChar(c) == <<c>>

\* Every character c with c.upper() # c and the string c.upper(), of one to
\* three characters (Unicode 14.0.0, the data of Python 3.11); a character
\* TLA+ cannot write is written as Python writes it.
UpperPairs ==
    <<
      <<"a", <<"A">>>>, <<"b", <<"B">>>>, <<"c", <<"C">>>>, <<"d", <<"D">>>>, <<"e", <<"E">>>>,
      <<"f", <<"F">>>>, <<"g", <<"G">>>>, <<"h", <<"H">>>>, <<"i", <<"I">>>>, <<"j", <<"J">>>>,
      <<"k", <<"K">>>>, <<"l", <<"L">>>>, <<"m", <<"M">>>>, <<"n", <<"N">>>>, <<"o", <<"O">>>>,
      <<"p", <<"P">>>>, <<"q", <<"Q">>>>, <<"r", <<"R">>>>, <<"s", <<"S">>>>, <<"t", <<"T">>>>,
      <<"u", <<"U">>>>, <<"v", <<"V">>>>, <<"w", <<"W">>>>, <<"x", <<"X">>>>, <<"y", <<"Y">>>>,
      <<"z", <<"Z">>>>, <<"\\xb5", <<"\\u039c">>>>, <<"\\xdf", <<"S", "S">>>>,
      <<"\\xe0", <<"\\xc0">>>>, <<"\\xe1", <<"\\xc1">>>>, <<"\\xe2", <<"\\xc2">>>>,
      <<"\\xe3", <<"\\xc3">>>>, <<"\\xe4", <<"\\xc4">>>>, <<"\\xe5", <<"\\xc5">>>>,
      <<"\\xe6", <<"\\xc6">>>>, <<"\\xe7", <<"\\xc7">>>>, <<"\\xe8", <<"\\xc8">>>>,
      <<"\\xe9", <<"\\xc9">>>>, <<"\\xea", <<"\\xca">>>>, <<"\\xeb", <<"\\xcb">>>>,
      <<"\\xec", <<"\\xcc">>>>, <<"\\xed", <<"\\xcd">>>>, <<"\\xee", <<"\\xce">>>>,
      <<"\\xef", <<"\\xcf">>>>, <<"\\xf0", <<"\\xd0">>>>, <<"\\xf1", <<"\\xd1">>>>,
      <<"\\xf2", <<"\\xd2">>>>, <<"\\xf3", <<"\\xd3">>>>, <<"\\xf4", <<"\\xd4">>>>,
      <<"\\xf5", <<"\\xd5">>>>, <<"\\xf6", <<"\\xd6">>>>, <<"\\xf8", <<"\\xd8">>>>,
      <<"\\xf9", <<"\\xd9">>>>, <<"\\xfa", <<"\\xda">>>>, <<"\\xfb", <<"\\xdb">>>>,
      <<"\\xfc", <<"\\xdc">>>>, <<"\\xfd", <<"\\xdd">>>>, <<"\\xfe", <<"\\xde">>>>,
      <<"\\xff", <<"\\u0178">>>>, <<"\\u0101", <<"\\u0100">>>>, <<"\\u0103", <<"\\u0102">>>>,
      <<"\\u0105", <<"\\u0104">>>>, <<"\\u0107", <<"\\u0106">>>>, <<"\\u0109", <<"\\u0108">>>>,
      <<"\\u010b", <<"\\u010a">>>>, <<"\\u010d", <<"\\u010c">>>>, <<"\\u010f", <<"\\u010e">>>>,
      <<"\\u0111", <<"\\u0110">>>>, <<"\\u0113", <<"\\u0112">>>>, <<"\\u0115", <<"\\u0114">>>>,
      <<"\\u0117", <<"\\u0116">>>>, <<"\\u0119", <<"\\u0118">>>>, <<"\\u011b", <<"\\u011a">>>>,
      <<"\\u011d", <<"\\u011c">>>>, <<"\\u011f", <<"\\u011e">>>>, <<"\\u0121", <<"\\u0120">>>>,
      <<"\\u0123", <<"\\u0122">>>>, <<"\\u0125", <<"\\u0124">>>>, <<"\\u0127", <<"\\u0126">>>>,
      <<"\\u0129", <<"\\u0128">>>>, <<"\\u012b", <<"\\u012a">>>>, <<"\\u012d", <<"\\u012c">>>>,
      <<"\\u012f", <<"\\u012e">>>>, <<"\\u0131", <<"I">>>>, <<"\\u0133", <<"\\u0132">>>>,
      <<"\\u0135", <<"\\u0134">>>>, <<"\\u0137", <<"\\u0136">>>>, <<"\\u013a", <<"\\u0139">>>>,
      <<"\\u013c", <<"\\u013b">>>>, <<"\\u013e", <<"\\u013d">>>>, <<"\\u0140", <<"\\u013f">>>>,
      <<"\\u0142", <<"\\u0141">>>>, <<"\\u0144", <<"\\u0143">>>>, <<"\\u0146", <<"\\u0145">>>>,
      <<"\\u0148", <<"\\u0147">>>>, <<"\\u0149", <<"\\u02bc", "N">>>>,
      <<"\\u014b", <<"\\u014a">>>>, <<"\\u014d", <<"\\u014c">>>>, <<"\\u014f", <<"\\u014e">>>>,
      <<"\\u0151", <<"\\u0150">>>>, <<"\\u0153", <<"\\u0152">>>>, <<"\\u0155", <<"\\u0154">>>>,
      <<"\\u0157", <<"\\u0156">>>>, <<"\\u0159", <<"\\u0158">>>>, <<"\\u015b", <<"\\u015a">>>>,
      <<"\\u015d", <<"\\u015c">>>>, <<"\\u015f", <<"\\u015e">>>>, <<"\\u0161", <<"\\u0160">>>>,
      <<"\\u0163", <<"\\u0162">>>>, <<"\\u0165", <<"\\u0164">>>>, <<"\\u0167", <<"\\u0166">>>>,
      <<"\\u0169", <<"\\u0168">>>>, <<"\\u016b", <<"\\u016a">>>>, <<"\\u016d", <<"\\u016c">>>>,
      <<"\\u016f", <<"\\u016e">>>>, <<"\\u0171", <<"\\u0170">>>>, <<"\\u0173", <<"\\u0172">>>>,
      <<"\\u0175", <<"\\u0174">>>>, <<"\\u0177", <<"\\u0176">>>>, <<"\\u017a", <<"\\u0179">>>>,
      <<"\\u017c", <<"\\u017b">>>>, <<"\\u017e", <<"\\u017d">>>>, <<"\\u017f", <<"S">>>>,
      <<"\\u0180", <<"\\u0243">>>>, <<"\\u0183", <<"\\u0182">>>>, <<"\\u0185", <<"\\u0184">>>>,
      <<"\\u0188", <<"\\u0187">>>>, <<"\\u018c", <<"\\u018b">>>>, <<"\\u0192", <<"\\u0191">>>>,
      <<"\\u0195", <<"\\u01f6">>>>, <<"\\u0199", <<"\\u0198">>>>, <<"\\u019a", <<"\\u023d">>>>,
      <<"\\u019e", <<"\\u0220">>>>, <<"\\u01a1", <<"\\u01a0">>>>, <<"\\u01a3", <<"\\u01a2">>>>,
      <<"\\u01a5", <<"\\u01a4">>>>, <<"\\u01a8", <<"\\u01a7">>>>, <<"\\u01ad", <<"\\u01ac">>>>,
      <<"\\u01b0", <<"\\u01af">>>>, <<"\\u01b4", <<"\\u01b3">>>>, <<"\\u01b6", <<"\\u01b5">>>>,
      <<"\\u01b9", <<"\\u01b8">>>>, <<"\\u01bd", <<"\\u01bc">>>>, <<"\\u01bf", <<"\\u01f7">>>>,
      <<"\\u01c5", <<"\\u01c4">>>>, <<"\\u01c6", <<"\\u01c4">>>>, <<"\\u01c8", <<"\\u01c7">>>>,
      <<"\\u01c9", <<"\\u01c7">>>>, <<"\\u01cb", <<"\\u01ca">>>>, <<"\\u01cc", <<"\\u01ca">>>>,
      <<"\\u01ce", <<"\\u01cd">>>>, <<"\\u01d0", <<"\\u01cf">>>>, <<"\\u01d2", <<"\\u01d1">>>>,
      <<"\\u01d4", <<"\\u01d3">>>>, <<"\\u01d6", <<"\\u01d5">>>>, <<"\\u01d8", <<"\\u01d7">>>>,
      <<"\\u01da", <<"\\u01d9">>>>, <<"\\u01dc", <<"\\u01db">>>>, <<"\\u01dd", <<"\\u018e">>>>,
      <<"\\u01df", <<"\\u01de">>>>, <<"\\u01e1", <<"\\u01e0">>>>, <<"\\u01e3", <<"\\u01e2">>>>,
      <<"\\u01e5", <<"\\u01e4">>>>, <<"\\u01e7", <<"\\u01e6">>>>, <<"\\u01e9", <<"\\u01e8">>>>,
      <<"\\u01eb", <<"\\u01ea">>>>, <<"\\u01ed", <<"\\u01ec">>>>, <<"\\u01ef", <<"\\u01ee">>>>,
      <<"\\u01f0", <<"J", "\\u030c">>>>, <<"\\u01f2", <<"\\u01f1">>>>,
      <<"\\u01f3", <<"\\u01f1">>>>, <<"\\u01f5", <<"\\u01f4">>>>, <<"\\u01f9", <<"\\u01f8">>>>,
      <<"\\u01fb", <<"\\u01fa">>>>, <<"\\u01fd", <<"\\u01fc">>>>, <<"\\u01ff", <<"\\u01fe">>>>,
      <<"\\u0201", <<"\\u0200">>>>, <<"\\u0203", <<"\\u0202">>>>, <<"\\u0205", <<"\\u0204">>>>,
      <<"\\u0207", <<"\\u0206">>>>, <<"\\u0209", <<"\\u0208">>>>, <<"\\u020b", <<"\\u020a">>>>,
      <<"\\u020d", <<"\\u020c">>>>, <<"\\u020f", <<"\\u020e">>>>, <<"\\u0211", <<"\\u0210">>>>,
      <<"\\u0213", <<"\\u0212">>>>, <<"\\u0215", <<"\\u0214">>>>, <<"\\u0217", <<"\\u0216">>>>,
      <<"\\u0219", <<"\\u0218">>>>, <<"\\u021b", <<"\\u021a">>>>, <<"\\u021d", <<"\\u021c">>>>,
      <<"\\u021f", <<"\\u021e">>>>, <<"\\u0223", <<"\\u0222">>>>, <<"\\u0225", <<"\\u0224">>>>,
      <<"\\u0227", <<"\\u0226">>>>, <<"\\u0229", <<"\\u0228">>>>, <<"\\u022b", <<"\\u022a">>>>,
      <<"\\u022d", <<"\\u022c">>>>, <<"\\u022f", <<"\\u022e">>>>, <<"\\u0231", <<"\\u0230">>>>,
      <<"\\u0233", <<"\\u0232">>>>, <<"\\u023c", <<"\\u023b">>>>, <<"\\u023f", <<"\\u2c7e">>>>,
      <<"\\u0240", <<"\\u2c7f">>>>, <<"\\u0242", <<"\\u0241">>>>, <<"\\u0247", <<"\\u0246">>>>,
      <<"\\u0249", <<"\\u0248">>>>, <<"\\u024b", <<"\\u024a">>>>, <<"\\u024d", <<"\\u024c">>>>,
      <<"\\u024f", <<"\\u024e">>>>, <<"\\u0250", <<"\\u2c6f">>>>, <<"\\u0251", <<"\\u2c6d">>>>,
      <<"\\u0252", <<"\\u2c70">>>>, <<"\\u0253", <<"\\u0181">>>>, <<"\\u0254", <<"\\u0186">>>>,
      <<"\\u0256", <<"\\u0189">>>>, <<"\\u0257", <<"\\u018a">>>>, <<"\\u0259", <<"\\u018f">>>>,
      <<"\\u025b", <<"\\u0190">>>>, <<"\\u025c", <<"\\ua7ab">>>>, <<"\\u0260", <<"\\u0193">>>>,
      <<"\\u0261", <<"\\ua7ac">>>>, <<"\\u0263", <<"\\u0194">>>>, <<"\\u0265", <<"\\ua78d">>>>,
      <<"\\u0266", <<"\\ua7aa">>>>, <<"\\u0268", <<"\\u0197">>>>, <<"\\u0269", <<"\\u0196">>>>,
      <<"\\u026a", <<"\\ua7ae">>>>, <<"\\u026b", <<"\\u2c62">>>>, <<"\\u026c", <<"\\ua7ad">>>>,
      <<"\\u026f", <<"\\u019c">>>>, <<"\\u0271", <<"\\u2c6e">>>>, <<"\\u0272", <<"\\u019d">>>>,
      <<"\\u0275", <<"\\u019f">>>>, <<"\\u027d", <<"\\u2c64">>>>, <<"\\u0280", <<"\\u01a6">>>>,
      <<"\\u0282", <<"\\ua7c5">>>>, <<"\\u0283", <<"\\u01a9">>>>, <<"\\u0287", <<"\\ua7b1">>>>,
      <<"\\u0288", <<"\\u01ae">>>>, <<"\\u0289", <<"\\u0244">>>>, <<"\\u028a", <<"\\u01b1">>>>,
      <<"\\u028b", <<"\\u01b2">>>>, <<"\\u028c", <<"\\u0245">>>>, <<"\\u0292", <<"\\u01b7">>>>,
      <<"\\u029d", <<"\\ua7b2">>>>, <<"\\u029e", <<"\\ua7b0">>>>, <<"\\u0345", <<"\\u0399">>>>,
      <<"\\u0371", <<"\\u0370">>>>, <<"\\u0373", <<"\\u0372">>>>, <<"\\u0377", <<"\\u0376">>>>,
      <<"\\u037b", <<"\\u03fd">>>>, <<"\\u037c", <<"\\u03fe">>>>, <<"\\u037d", <<"\\u03ff">>>>,
      <<"\\u0390", <<"\\u0399", "\\u0308", "\\u0301">>>>, <<"\\u03ac", <<"\\u0386">>>>,
      <<"\\u03ad", <<"\\u0388">>>>, <<"\\u03ae", <<"\\u0389">>>>, <<"\\u03af", <<"\\u038a">>>>,
      <<"\\u03b0", <<"\\u03a5", "\\u0308", "\\u0301">>>>, <<"\\u03b1", <<"\\u0391">>>>,
      <<"\\u03b2", <<"\\u0392">>>>, <<"\\u03b3", <<"\\u0393">>>>, <<"\\u03b4", <<"\\u0394">>>>,
      <<"\\u03b5", <<"\\u0395">>>>, <<"\\u03b6", <<"\\u0396">>>>, <<"\\u03b7", <<"\\u0397">>>>,
      <<"\\u03b8", <<"\\u0398">>>>, <<"\\u03b9", <<"\\u0399">>>>, <<"\\u03ba", <<"\\u039a">>>>,
      <<"\\u03bb", <<"\\u039b">>>>, <<"\\u03bc", <<"\\u039c">>>>, <<"\\u03bd", <<"\\u039d">>>>,
      <<"\\u03be", <<"\\u039e">>>>, <<"\\u03bf", <<"\\u039f">>>>, <<"\\u03c0", <<"\\u03a0">>>>,
      <<"\\u03c1", <<"\\u03a1">>>>, <<"\\u03c2", <<"\\u03a3">>>>, <<"\\u03c3", <<"\\u03a3">>>>,
      <<"\\u03c4", <<"\\u03a4">>>>, <<"\\u03c5", <<"\\u03a5">>>>, <<"\\u03c6", <<"\\u03a6">>>>,
      <<"\\u03c7", <<"\\u03a7">>>>, <<"\\u03c8", <<"\\u03a8">>>>, <<"\\u03c9", <<"\\u03a9">>>>,
      <<"\\u03ca", <<"\\u03aa">>>>, <<"\\u03cb", <<"\\u03ab">>>>, <<"\\u03cc", <<"\\u038c">>>>,
      <<"\\u03cd", <<"\\u038e">>>>, <<"\\u03ce", <<"\\u038f">>>>, <<"\\u03d0", <<"\\u0392">>>>,
      <<"\\u03d1", <<"\\u0398">>>>, <<"\\u03d5", <<"\\u03a6">>>>, <<"\\u03d6", <<"\\u03a0">>>>,
      <<"\\u03d7", <<"\\u03cf">>>>, <<"\\u03d9", <<"\\u03d8">>>>, <<"\\u03db", <<"\\u03da">>>>,
      <<"\\u03dd", <<"\\u03dc">>>>, <<"\\u03df", <<"\\u03de">>>>, <<"\\u03e1", <<"\\u03e0">>>>,
      <<"\\u03e3", <<"\\u03e2">>>>, <<"\\u03e5", <<"\\u03e4">>>>, <<"\\u03e7", <<"\\u03e6">>>>,
      <<"\\u03e9", <<"\\u03e8">>>>, <<"\\u03eb", <<"\\u03ea">>>>, <<"\\u03ed", <<"\\u03ec">>>>,
      <<"\\u03ef", <<"\\u03ee">>>>, <<"\\u03f0", <<"\\u039a">>>>, <<"\\u03f1", <<"\\u03a1">>>>,
      <<"\\u03f2", <<"\\u03f9">>>>, <<"\\u03f3", <<"\\u037f">>>>, <<"\\u03f5", <<"\\u0395">>>>,
      <<"\\u03f8", <<"\\u03f7">>>>, <<"\\u03fb", <<"\\u03fa">>>>, <<"\\u0430", <<"\\u0410">>>>,
      <<"\\u0431", <<"\\u0411">>>>, <<"\\u0432", <<"\\u0412">>>>, <<"\\u0433", <<"\\u0413">>>>,
      <<"\\u0434", <<"\\u0414">>>>, <<"\\u0435", <<"\\u0415">>>>, <<"\\u0436", <<"\\u0416">>>>,
      <<"\\u0437", <<"\\u0417">>>>, <<"\\u0438", <<"\\u0418">>>>, <<"\\u0439", <<"\\u0419">>>>,
      <<"\\u043a", <<"\\u041a">>>>, <<"\\u043b", <<"\\u041b">>>>, <<"\\u043c", <<"\\u041c">>>>,
      <<"\\u043d", <<"\\u041d">>>>, <<"\\u043e", <<"\\u041e">>>>, <<"\\u043f", <<"\\u041f">>>>,
      <<"\\u0440", <<"\\u0420">>>>, <<"\\u0441", <<"\\u0421">>>>, <<"\\u0442", <<"\\u0422">>>>,
      <<"\\u0443", <<"\\u0423">>>>, <<"\\u0444", <<"\\u0424">>>>, <<"\\u0445", <<"\\u0425">>>>,
      <<"\\u0446", <<"\\u0426">>>>, <<"\\u0447", <<"\\u0427">>>>, <<"\\u0448", <<"\\u0428">>>>,
      <<"\\u0449", <<"\\u0429">>>>, <<"\\u044a", <<"\\u042a">>>>, <<"\\u044b", <<"\\u042b">>>>,
      <<"\\u044c", <<"\\u042c">>>>, <<"\\u044d", <<"\\u042d">>>>, <<"\\u044e", <<"\\u042e">>>>,
      <<"\\u044f", <<"\\u042f">>>>, <<"\\u0450", <<"\\u0400">>>>, <<"\\u0451", <<"\\u0401">>>>,
      <<"\\u0452", <<"\\u0402">>>>, <<"\\u0453", <<"\\u0403">>>>, <<"\\u0454", <<"\\u0404">>>>,
      <<"\\u0455", <<"\\u0405">>>>, <<"\\u0456", <<"\\u0406">>>>, <<"\\u0457", <<"\\u0407">>>>,
      <<"\\u0458", <<"\\u0408">>>>, <<"\\u0459", <<"\\u0409">>>>, <<"\\u045a", <<"\\u040a">>>>,
      <<"\\u045b", <<"\\u040b">>>>, <<"\\u045c", <<"\\u040c">>>>, <<"\\u045d", <<"\\u040d">>>>,
      <<"\\u045e", <<"\\u040e">>>>, <<"\\u045f", <<"\\u040f">>>>, <<"\\u0461", <<"\\u0460">>>>,
      <<"\\u0463", <<"\\u0462">>>>, <<"\\u0465", <<"\\u0464">>>>, <<"\\u0467", <<"\\u0466">>>>,
      <<"\\u0469", <<"\\u0468">>>>, <<"\\u046b", <<"\\u046a">>>>, <<"\\u046d", <<"\\u046c">>>>,
      <<"\\u046f", <<"\\u046e">>>>, <<"\\u0471", <<"\\u0470">>>>, <<"\\u0473", <<"\\u0472">>>>,
      <<"\\u0475", <<"\\u0474">>>>, <<"\\u0477", <<"\\u0476">>>>, <<"\\u0479", <<"\\u0478">>>>,
      <<"\\u047b", <<"\\u047a">>>>, <<"\\u047d", <<"\\u047c">>>>, <<"\\u047f", <<"\\u047e">>>>,
      <<"\\u0481", <<"\\u0480">>>>, <<"\\u048b", <<"\\u048a">>>>, <<"\\u048d", <<"\\u048c">>>>,
      <<"\\u048f", <<"\\u048e">>>>, <<"\\u0491", <<"\\u0490">>>>, <<"\\u0493", <<"\\u0492">>>>,
      <<"\\u0495", <<"\\u0494">>>>, <<"\\u0497", <<"\\u0496">>>>, <<"\\u0499", <<"\\u0498">>>>,
      <<"\\u049b", <<"\\u049a">>>>, <<"\\u049d", <<"\\u049c">>>>, <<"\\u049f", <<"\\u049e">>>>,
      <<"\\u04a1", <<"\\u04a0">>>>, <<"\\u04a3", <<"\\u04a2">>>>, <<"\\u04a5", <<"\\u04a4">>>>,
      <<"\\u04a7", <<"\\u04a6">>>>, <<"\\u04a9", <<"\\u04a8">>>>, <<"\\u04ab", <<"\\u04aa">>>>,
      <<"\\u04ad", <<"\\u04ac">>>>, <<"\\u04af", <<"\\u04ae">>>>, <<"\\u04b1", <<"\\u04b0">>>>,
      <<"\\u04b3", <<"\\u04b2">>>>, <<"\\u04b5", <<"\\u04b4">>>>, <<"\\u04b7", <<"\\u04b6">>>>,
      <<"\\u04b9", <<"\\u04b8">>>>, <<"\\u04bb", <<"\\u04ba">>>>, <<"\\u04bd", <<"\\u04bc">>>>,
      <<"\\u04bf", <<"\\u04be">>>>, <<"\\u04c2", <<"\\u04c1">>>>, <<"\\u04c4", <<"\\u04c3">>>>,
      <<"\\u04c6", <<"\\u04c5">>>>, <<"\\u04c8", <<"\\u04c7">>>>, <<"\\u04ca", <<"\\u04c9">>>>,
      <<"\\u04cc", <<"\\u04cb">>>>, <<"\\u04ce", <<"\\u04cd">>>>, <<"\\u04cf", <<"\\u04c0">>>>,
      <<"\\u04d1", <<"\\u04d0">>>>, <<"\\u04d3", <<"\\u04d2">>>>, <<"\\u04d5", <<"\\u04d4">>>>,
      <<"\\u04d7", <<"\\u04d6">>>>, <<"\\u04d9", <<"\\u04d8">>>>, <<"\\u04db", <<"\\u04da">>>>,
      <<"\\u04dd", <<"\\u04dc">>>>, <<"\\u04df", <<"\\u04de">>>>, <<"\\u04e1", <<"\\u04e0">>>>,
      <<"\\u04e3", <<"\\u04e2">>>>, <<"\\u04e5", <<"\\u04e4">>>>, <<"\\u04e7", <<"\\u04e6">>>>,
      <<"\\u04e9", <<"\\u04e8">>>>, <<"\\u04eb", <<"\\u04ea">>>>, <<"\\u04ed", <<"\\u04ec">>>>,
      <<"\\u04ef", <<"\\u04ee">>>>, <<"\\u04f1", <<"\\u04f0">>>>, <<"\\u04f3", <<"\\u04f2">>>>,
      <<"\\u04f5", <<"\\u04f4">>>>, <<"\\u04f7", <<"\\u04f6">>>>, <<"\\u04f9", <<"\\u04f8">>>>,
      <<"\\u04fb", <<"\\u04fa">>>>, <<"\\u04fd", <<"\\u04fc">>>>, <<"\\u04ff", <<"\\u04fe">>>>,
      <<"\\u0501", <<"\\u0500">>>>, <<"\\u0503", <<"\\u0502">>>>, <<"\\u0505", <<"\\u0504">>>>,
      <<"\\u0507", <<"\\u0506">>>>, <<"\\u0509", <<"\\u0508">>>>, <<"\\u050b", <<"\\u050a">>>>,
      <<"\\u050d", <<"\\u050c">>>>, <<"\\u050f", <<"\\u050e">>>>, <<"\\u0511", <<"\\u0510">>>>,
      <<"\\u0513", <<"\\u0512">>>>, <<"\\u0515", <<"\\u0514">>>>, <<"\\u0517", <<"\\u0516">>>>,
      <<"\\u0519", <<"\\u0518">>>>, <<"\\u051b", <<"\\u051a">>>>, <<"\\u051d", <<"\\u051c">>>>,
      <<"\\u051f", <<"\\u051e">>>>, <<"\\u0521", <<"\\u0520">>>>, <<"\\u0523", <<"\\u0522">>>>,
      <<"\\u0525", <<"\\u0524">>>>, <<"\\u0527", <<"\\u0526">>>>, <<"\\u0529", <<"\\u0528">>>>,
      <<"\\u052b", <<"\\u052a">>>>, <<"\\u052d", <<"\\u052c">>>>, <<"\\u052f", <<"\\u052e">>>>,
      <<"\\u0561", <<"\\u0531">>>>, <<"\\u0562", <<"\\u0532">>>>, <<"\\u0563", <<"\\u0533">>>>,
      <<"\\u0564", <<"\\u0534">>>>, <<"\\u0565", <<"\\u0535">>>>, <<"\\u0566", <<"\\u0536">>>>,
      <<"\\u0567", <<"\\u0537">>>>, <<"\\u0568", <<"\\u0538">>>>, <<"\\u0569", <<"\\u0539">>>>,
      <<"\\u056a", <<"\\u053a">>>>, <<"\\u056b", <<"\\u053b">>>>, <<"\\u056c", <<"\\u053c">>>>,
      <<"\\u056d", <<"\\u053d">>>>, <<"\\u056e", <<"\\u053e">>>>, <<"\\u056f", <<"\\u053f">>>>,
      <<"\\u0570", <<"\\u0540">>>>, <<"\\u0571", <<"\\u0541">>>>, <<"\\u0572", <<"\\u0542">>>>,
      <<"\\u0573", <<"\\u0543">>>>, <<"\\u0574", <<"\\u0544">>>>, <<"\\u0575", <<"\\u0545">>>>,
      <<"\\u0576", <<"\\u0546">>>>, <<"\\u0577", <<"\\u0547">>>>, <<"\\u0578", <<"\\u0548">>>>,
      <<"\\u0579", <<"\\u0549">>>>, <<"\\u057a", <<"\\u054a">>>>, <<"\\u057b", <<"\\u054b">>>>,
      <<"\\u057c", <<"\\u054c">>>>, <<"\\u057d", <<"\\u054d">>>>, <<"\\u057e", <<"\\u054e">>>>,
      <<"\\u057f", <<"\\u054f">>>>, <<"\\u0580", <<"\\u0550">>>>, <<"\\u0581", <<"\\u0551">>>>,
      <<"\\u0582", <<"\\u0552">>>>, <<"\\u0583", <<"\\u0553">>>>, <<"\\u0584", <<"\\u0554">>>>,
      <<"\\u0585", <<"\\u0555">>>>, <<"\\u0586", <<"\\u0556">>>>,
      <<"\\u0587", <<"\\u0535", "\\u0552">>>>, <<"\\u10d0", <<"\\u1c90">>>>,
      <<"\\u10d1", <<"\\u1c91">>>>, <<"\\u10d2", <<"\\u1c92">>>>, <<"\\u10d3", <<"\\u1c93">>>>,
      <<"\\u10d4", <<"\\u1c94">>>>, <<"\\u10d5", <<"\\u1c95">>>>, <<"\\u10d6", <<"\\u1c96">>>>,
      <<"\\u10d7", <<"\\u1c97">>>>, <<"\\u10d8", <<"\\u1c98">>>>, <<"\\u10d9", <<"\\u1c99">>>>,
      <<"\\u10da", <<"\\u1c9a">>>>, <<"\\u10db", <<"\\u1c9b">>>>, <<"\\u10dc", <<"\\u1c9c">>>>,
      <<"\\u10dd", <<"\\u1c9d">>>>, <<"\\u10de", <<"\\u1c9e">>>>, <<"\\u10df", <<"\\u1c9f">>>>,
      <<"\\u10e0", <<"\\u1ca0">>>>, <<"\\u10e1", <<"\\u1ca1">>>>, <<"\\u10e2", <<"\\u1ca2">>>>,
      <<"\\u10e3", <<"\\u1ca3">>>>, <<"\\u10e4", <<"\\u1ca4">>>>, <<"\\u10e5", <<"\\u1ca5">>>>,
      <<"\\u10e6", <<"\\u1ca6">>>>, <<"\\u10e7", <<"\\u1ca7">>>>, <<"\\u10e8", <<"\\u1ca8">>>>,
      <<"\\u10e9", <<"\\u1ca9">>>>, <<"\\u10ea", <<"\\u1caa">>>>, <<"\\u10eb", <<"\\u1cab">>>>,
      <<"\\u10ec", <<"\\u1cac">>>>, <<"\\u10ed", <<"\\u1cad">>>>, <<"\\u10ee", <<"\\u1cae">>>>,
      <<"\\u10ef", <<"\\u1caf">>>>, <<"\\u10f0", <<"\\u1cb0">>>>, <<"\\u10f1", <<"\\u1cb1">>>>,
      <<"\\u10f2", <<"\\u1cb2">>>>, <<"\\u10f3", <<"\\u1cb3">>>>, <<"\\u10f4", <<"\\u1cb4">>>>,
      <<"\\u10f5", <<"\\u1cb5">>>>, <<"\\u10f6", <<"\\u1cb6">>>>, <<"\\u10f7", <<"\\u1cb7">>>>,
      <<"\\u10f8", <<"\\u1cb8">>>>, <<"\\u10f9", <<"\\u1cb9">>>>, <<"\\u10fa", <<"\\u1cba">>>>,
      <<"\\u10fd", <<"\\u1cbd">>>>, <<"\\u10fe", <<"\\u1cbe">>>>, <<"\\u10ff", <<"\\u1cbf">>>>,
      <<"\\u13f8", <<"\\u13f0">>>>, <<"\\u13f9", <<"\\u13f1">>>>, <<"\\u13fa", <<"\\u13f2">>>>,
      <<"\\u13fb", <<"\\u13f3">>>>, <<"\\u13fc", <<"\\u13f4">>>>, <<"\\u13fd", <<"\\u13f5">>>>,
      <<"\\u1c80", <<"\\u0412">>>>, <<"\\u1c81", <<"\\u0414">>>>, <<"\\u1c82", <<"\\u041e">>>>,
      <<"\\u1c83", <<"\\u0421">>>>, <<"\\u1c84", <<"\\u0422">>>>, <<"\\u1c85", <<"\\u0422">>>>,
      <<"\\u1c86", <<"\\u042a">>>>, <<"\\u1c87", <<"\\u0462">>>>, <<"\\u1c88", <<"\\ua64a">>>>,
      <<"\\u1d79", <<"\\ua77d">>>>, <<"\\u1d7d", <<"\\u2c63">>>>, <<"\\u1d8e", <<"\\ua7c6">>>>,
      <<"\\u1e01", <<"\\u1e00">>>>, <<"\\u1e03", <<"\\u1e02">>>>, <<"\\u1e05", <<"\\u1e04">>>>,
      <<"\\u1e07", <<"\\u1e06">>>>, <<"\\u1e09", <<"\\u1e08">>>>, <<"\\u1e0b", <<"\\u1e0a">>>>,
      <<"\\u1e0d", <<"\\u1e0c">>>>, <<"\\u1e0f", <<"\\u1e0e">>>>, <<"\\u1e11", <<"\\u1e10">>>>,
      <<"\\u1e13", <<"\\u1e12">>>>, <<"\\u1e15", <<"\\u1e14">>>>, <<"\\u1e17", <<"\\u1e16">>>>,
      <<"\\u1e19", <<"\\u1e18">>>>, <<"\\u1e1b", <<"\\u1e1a">>>>, <<"\\u1e1d", <<"\\u1e1c">>>>,
      <<"\\u1e1f", <<"\\u1e1e">>>>, <<"\\u1e21", <<"\\u1e20">>>>, <<"\\u1e23", <<"\\u1e22">>>>,
      <<"\\u1e25", <<"\\u1e24">>>>, <<"\\u1e27", <<"\\u1e26">>>>, <<"\\u1e29", <<"\\u1e28">>>>,
      <<"\\u1e2b", <<"\\u1e2a">>>>, <<"\\u1e2d", <<"\\u1e2c">>>>, <<"\\u1e2f", <<"\\u1e2e">>>>,
      <<"\\u1e31", <<"\\u1e30">>>>, <<"\\u1e33", <<"\\u1e32">>>>, <<"\\u1e35", <<"\\u1e34">>>>,
      <<"\\u1e37", <<"\\u1e36">>>>, <<"\\u1e39", <<"\\u1e38">>>>, <<"\\u1e3b", <<"\\u1e3a">>>>,
      <<"\\u1e3d", <<"\\u1e3c">>>>, <<"\\u1e3f", <<"\\u1e3e">>>>, <<"\\u1e41", <<"\\u1e40">>>>,
      <<"\\u1e43", <<"\\u1e42">>>>, <<"\\u1e45", <<"\\u1e44">>>>, <<"\\u1e47", <<"\\u1e46">>>>,
      <<"\\u1e49", <<"\\u1e48">>>>, <<"\\u1e4b", <<"\\u1e4a">>>>, <<"\\u1e4d", <<"\\u1e4c">>>>,
      <<"\\u1e4f", <<"\\u1e4e">>>>, <<"\\u1e51", <<"\\u1e50">>>>, <<"\\u1e53", <<"\\u1e52">>>>,
      <<"\\u1e55", <<"\\u1e54">>>>, <<"\\u1e57", <<"\\u1e56">>>>, <<"\\u1e59", <<"\\u1e58">>>>,
      <<"\\u1e5b", <<"\\u1e5a">>>>, <<"\\u1e5d", <<"\\u1e5c">>>>, <<"\\u1e5f", <<"\\u1e5e">>>>,
      <<"\\u1e61", <<"\\u1e60">>>>, <<"\\u1e63", <<"\\u1e62">>>>, <<"\\u1e65", <<"\\u1e64">>>>,
      <<"\\u1e67", <<"\\u1e66">>>>, <<"\\u1e69", <<"\\u1e68">>>>, <<"\\u1e6b", <<"\\u1e6a">>>>,
      <<"\\u1e6d", <<"\\u1e6c">>>>, <<"\\u1e6f", <<"\\u1e6e">>>>, <<"\\u1e71", <<"\\u1e70">>>>,
      <<"\\u1e73", <<"\\u1e72">>>>, <<"\\u1e75", <<"\\u1e74">>>>, <<"\\u1e77", <<"\\u1e76">>>>,
      <<"\\u1e79", <<"\\u1e78">>>>, <<"\\u1e7b", <<"\\u1e7a">>>>, <<"\\u1e7d", <<"\\u1e7c">>>>,
      <<"\\u1e7f", <<"\\u1e7e">>>>, <<"\\u1e81", <<"\\u1e80">>>>, <<"\\u1e83", <<"\\u1e82">>>>,
      <<"\\u1e85", <<"\\u1e84">>>>, <<"\\u1e87", <<"\\u1e86">>>>, <<"\\u1e89", <<"\\u1e88">>>>,
      <<"\\u1e8b", <<"\\u1e8a">>>>, <<"\\u1e8d", <<"\\u1e8c">>>>, <<"\\u1e8f", <<"\\u1e8e">>>>,
      <<"\\u1e91", <<"\\u1e90">>>>, <<"\\u1e93", <<"\\u1e92">>>>, <<"\\u1e95", <<"\\u1e94">>>>,
      <<"\\u1e96", <<"H", "\\u0331">>>>, <<"\\u1e97", <<"T", "\\u0308">>>>,
      <<"\\u1e98", <<"W", "\\u030a">>>>, <<"\\u1e99", <<"Y", "\\u030a">>>>,
      <<"\\u1e9a", <<"A", "\\u02be">>>>, <<"\\u1e9b", <<"\\u1e60">>>>,
      <<"\\u1ea1", <<"\\u1ea0">>>>, <<"\\u1ea3", <<"\\u1ea2">>>>, <<"\\u1ea5", <<"\\u1ea4">>>>,
      <<"\\u1ea7", <<"\\u1ea6">>>>, <<"\\u1ea9", <<"\\u1ea8">>>>, <<"\\u1eab", <<"\\u1eaa">>>>,
      <<"\\u1ead", <<"\\u1eac">>>>, <<"\\u1eaf", <<"\\u1eae">>>>, <<"\\u1eb1", <<"\\u1eb0">>>>,
      <<"\\u1eb3", <<"\\u1eb2">>>>, <<"\\u1eb5", <<"\\u1eb4">>>>, <<"\\u1eb7", <<"\\u1eb6">>>>,
      <<"\\u1eb9", <<"\\u1eb8">>>>, <<"\\u1ebb", <<"\\u1eba">>>>, <<"\\u1ebd", <<"\\u1ebc">>>>,
      <<"\\u1ebf", <<"\\u1ebe">>>>, <<"\\u1ec1", <<"\\u1ec0">>>>, <<"\\u1ec3", <<"\\u1ec2">>>>,
      <<"\\u1ec5", <<"\\u1ec4">>>>, <<"\\u1ec7", <<"\\u1ec6">>>>, <<"\\u1ec9", <<"\\u1ec8">>>>,
      <<"\\u1ecb", <<"\\u1eca">>>>, <<"\\u1ecd", <<"\\u1ecc">>>>, <<"\\u1ecf", <<"\\u1ece">>>>,
      <<"\\u1ed1", <<"\\u1ed0">>>>, <<"\\u1ed3", <<"\\u1ed2">>>>, <<"\\u1ed5", <<"\\u1ed4">>>>,
      <<"\\u1ed7", <<"\\u1ed6">>>>, <<"\\u1ed9", <<"\\u1ed8">>>>, <<"\\u1edb", <<"\\u1eda">>>>,
      <<"\\u1edd", <<"\\u1edc">>>>, <<"\\u1edf", <<"\\u1ede">>>>, <<"\\u1ee1", <<"\\u1ee0">>>>,
      <<"\\u1ee3", <<"\\u1ee2">>>>, <<"\\u1ee5", <<"\\u1ee4">>>>, <<"\\u1ee7", <<"\\u1ee6">>>>,
      <<"\\u1ee9", <<"\\u1ee8">>>>, <<"\\u1eeb", <<"\\u1eea">>>>, <<"\\u1eed", <<"\\u1eec">>>>,
      <<"\\u1eef", <<"\\u1eee">>>>, <<"\\u1ef1", <<"\\u1ef0">>>>, <<"\\u1ef3", <<"\\u1ef2">>>>,
      <<"\\u1ef5", <<"\\u1ef4">>>>, <<"\\u1ef7", <<"\\u1ef6">>>>, <<"\\u1ef9", <<"\\u1ef8">>>>,
      <<"\\u1efb", <<"\\u1efa">>>>, <<"\\u1efd", <<"\\u1efc">>>>, <<"\\u1eff", <<"\\u1efe">>>>,
      <<"\\u1f00", <<"\\u1f08">>>>, <<"\\u1f01", <<"\\u1f09">>>>, <<"\\u1f02", <<"\\u1f0a">>>>,
      <<"\\u1f03", <<"\\u1f0b">>>>, <<"\\u1f04", <<"\\u1f0c">>>>, <<"\\u1f05", <<"\\u1f0d">>>>,
      <<"\\u1f06", <<"\\u1f0e">>>>, <<"\\u1f07", <<"\\u1f0f">>>>, <<"\\u1f10", <<"\\u1f18">>>>,
      <<"\\u1f11", <<"\\u1f19">>>>, <<"\\u1f12", <<"\\u1f1a">>>>, <<"\\u1f13", <<"\\u1f1b">>>>,
      <<"\\u1f14", <<"\\u1f1c">>>>, <<"\\u1f15", <<"\\u1f1d">>>>, <<"\\u1f20", <<"\\u1f28">>>>,
      <<"\\u1f21", <<"\\u1f29">>>>, <<"\\u1f22", <<"\\u1f2a">>>>, <<"\\u1f23", <<"\\u1f2b">>>>,
      <<"\\u1f24", <<"\\u1f2c">>>>, <<"\\u1f25", <<"\\u1f2d">>>>, <<"\\u1f26", <<"\\u1f2e">>>>,
      <<"\\u1f27", <<"\\u1f2f">>>>, <<"\\u1f30", <<"\\u1f38">>>>, <<"\\u1f31", <<"\\u1f39">>>>,
      <<"\\u1f32", <<"\\u1f3a">>>>, <<"\\u1f33", <<"\\u1f3b">>>>, <<"\\u1f34", <<"\\u1f3c">>>>,
      <<"\\u1f35", <<"\\u1f3d">>>>, <<"\\u1f36", <<"\\u1f3e">>>>, <<"\\u1f37", <<"\\u1f3f">>>>,
      <<"\\u1f40", <<"\\u1f48">>>>, <<"\\u1f41", <<"\\u1f49">>>>, <<"\\u1f42", <<"\\u1f4a">>>>,
      <<"\\u1f43", <<"\\u1f4b">>>>, <<"\\u1f44", <<"\\u1f4c">>>>, <<"\\u1f45", <<"\\u1f4d">>>>,
      <<"\\u1f50", <<"\\u03a5", "\\u0313">>>>, <<"\\u1f51", <<"\\u1f59">>>>,
      <<"\\u1f52", <<"\\u03a5", "\\u0313", "\\u0300">>>>, <<"\\u1f53", <<"\\u1f5b">>>>,
      <<"\\u1f54", <<"\\u03a5", "\\u0313", "\\u0301">>>>, <<"\\u1f55", <<"\\u1f5d">>>>,
      <<"\\u1f56", <<"\\u03a5", "\\u0313", "\\u0342">>>>, <<"\\u1f57", <<"\\u1f5f">>>>,
      <<"\\u1f60", <<"\\u1f68">>>>, <<"\\u1f61", <<"\\u1f69">>>>, <<"\\u1f62", <<"\\u1f6a">>>>,
      <<"\\u1f63", <<"\\u1f6b">>>>, <<"\\u1f64", <<"\\u1f6c">>>>, <<"\\u1f65", <<"\\u1f6d">>>>,
      <<"\\u1f66", <<"\\u1f6e">>>>, <<"\\u1f67", <<"\\u1f6f">>>>, <<"\\u1f70", <<"\\u1fba">>>>,
      <<"\\u1f71", <<"\\u1fbb">>>>, <<"\\u1f72", <<"\\u1fc8">>>>, <<"\\u1f73", <<"\\u1fc9">>>>,
      <<"\\u1f74", <<"\\u1fca">>>>, <<"\\u1f75", <<"\\u1fcb">>>>, <<"\\u1f76", <<"\\u1fda">>>>,
      <<"\\u1f77", <<"\\u1fdb">>>>, <<"\\u1f78", <<"\\u1ff8">>>>, <<"\\u1f79", <<"\\u1ff9">>>>,
      <<"\\u1f7a", <<"\\u1fea">>>>, <<"\\u1f7b", <<"\\u1feb">>>>, <<"\\u1f7c", <<"\\u1ffa">>>>,
      <<"\\u1f7d", <<"\\u1ffb">>>>, <<"\\u1f80", <<"\\u1f08", "\\u0399">>>>,
      <<"\\u1f81", <<"\\u1f09", "\\u0399">>>>, <<"\\u1f82", <<"\\u1f0a", "\\u0399">>>>,
      <<"\\u1f83", <<"\\u1f0b", "\\u0399">>>>, <<"\\u1f84", <<"\\u1f0c", "\\u0399">>>>,
      <<"\\u1f85", <<"\\u1f0d", "\\u0399">>>>, <<"\\u1f86", <<"\\u1f0e", "\\u0399">>>>,
      <<"\\u1f87", <<"\\u1f0f", "\\u0399">>>>, <<"\\u1f88", <<"\\u1f08", "\\u0399">>>>,
      <<"\\u1f89", <<"\\u1f09", "\\u0399">>>>, <<"\\u1f8a", <<"\\u1f0a", "\\u0399">>>>,
      <<"\\u1f8b", <<"\\u1f0b", "\\u0399">>>>, <<"\\u1f8c", <<"\\u1f0c", "\\u0399">>>>,
      <<"\\u1f8d", <<"\\u1f0d", "\\u0399">>>>, <<"\\u1f8e", <<"\\u1f0e", "\\u0399">>>>,
      <<"\\u1f8f", <<"\\u1f0f", "\\u0399">>>>, <<"\\u1f90", <<"\\u1f28", "\\u0399">>>>,
      <<"\\u1f91", <<"\\u1f29", "\\u0399">>>>, <<"\\u1f92", <<"\\u1f2a", "\\u0399">>>>,
      <<"\\u1f93", <<"\\u1f2b", "\\u0399">>>>, <<"\\u1f94", <<"\\u1f2c", "\\u0399">>>>,
      <<"\\u1f95", <<"\\u1f2d", "\\u0399">>>>, <<"\\u1f96", <<"\\u1f2e", "\\u0399">>>>,
      <<"\\u1f97", <<"\\u1f2f", "\\u0399">>>>, <<"\\u1f98", <<"\\u1f28", "\\u0399">>>>,
      <<"\\u1f99", <<"\\u1f29", "\\u0399">>>>, <<"\\u1f9a", <<"\\u1f2a", "\\u0399">>>>,
      <<"\\u1f9b", <<"\\u1f2b", "\\u0399">>>>, <<"\\u1f9c", <<"\\u1f2c", "\\u0399">>>>,
      <<"\\u1f9d", <<"\\u1f2d", "\\u0399">>>>, <<"\\u1f9e", <<"\\u1f2e", "\\u0399">>>>,
      <<"\\u1f9f", <<"\\u1f2f", "\\u0399">>>>, <<"\\u1fa0", <<"\\u1f68", "\\u0399">>>>,
      <<"\\u1fa1", <<"\\u1f69", "\\u0399">>>>, <<"\\u1fa2", <<"\\u1f6a", "\\u0399">>>>,
      <<"\\u1fa3", <<"\\u1f6b", "\\u0399">>>>, <<"\\u1fa4", <<"\\u1f6c", "\\u0399">>>>,
      <<"\\u1fa5", <<"\\u1f6d", "\\u0399">>>>, <<"\\u1fa6", <<"\\u1f6e", "\\u0399">>>>,
      <<"\\u1fa7", <<"\\u1f6f", "\\u0399">>>>, <<"\\u1fa8", <<"\\u1f68", "\\u0399">>>>,
      <<"\\u1fa9", <<"\\u1f69", "\\u0399">>>>, <<"\\u1faa", <<"\\u1f6a", "\\u0399">>>>,
      <<"\\u1fab", <<"\\u1f6b", "\\u0399">>>>, <<"\\u1fac", <<"\\u1f6c", "\\u0399">>>>,
      <<"\\u1fad", <<"\\u1f6d", "\\u0399">>>>, <<"\\u1fae", <<"\\u1f6e", "\\u0399">>>>,
      <<"\\u1faf", <<"\\u1f6f", "\\u0399">>>>, <<"\\u1fb0", <<"\\u1fb8">>>>,
      <<"\\u1fb1", <<"\\u1fb9">>>>, <<"\\u1fb2", <<"\\u1fba", "\\u0399">>>>,
      <<"\\u1fb3", <<"\\u0391", "\\u0399">>>>, <<"\\u1fb4", <<"\\u0386", "\\u0399">>>>,
      <<"\\u1fb6", <<"\\u0391", "\\u0342">>>>,
      <<"\\u1fb7", <<"\\u0391", "\\u0342", "\\u0399">>>>,
      <<"\\u1fbc", <<"\\u0391", "\\u0399">>>>, <<"\\u1fbe", <<"\\u0399">>>>,
      <<"\\u1fc2", <<"\\u1fca", "\\u0399">>>>, <<"\\u1fc3", <<"\\u0397", "\\u0399">>>>,
      <<"\\u1fc4", <<"\\u0389", "\\u0399">>>>, <<"\\u1fc6", <<"\\u0397", "\\u0342">>>>,
      <<"\\u1fc7", <<"\\u0397", "\\u0342", "\\u0399">>>>,
      <<"\\u1fcc", <<"\\u0397", "\\u0399">>>>, <<"\\u1fd0", <<"\\u1fd8">>>>,
      <<"\\u1fd1", <<"\\u1fd9">>>>, <<"\\u1fd2", <<"\\u0399", "\\u0308", "\\u0300">>>>,
      <<"\\u1fd3", <<"\\u0399", "\\u0308", "\\u0301">>>>,
      <<"\\u1fd6", <<"\\u0399", "\\u0342">>>>,
      <<"\\u1fd7", <<"\\u0399", "\\u0308", "\\u0342">>>>, <<"\\u1fe0", <<"\\u1fe8">>>>,
      <<"\\u1fe1", <<"\\u1fe9">>>>, <<"\\u1fe2", <<"\\u03a5", "\\u0308", "\\u0300">>>>,
      <<"\\u1fe3", <<"\\u03a5", "\\u0308", "\\u0301">>>>,
      <<"\\u1fe4", <<"\\u03a1", "\\u0313">>>>, <<"\\u1fe5", <<"\\u1fec">>>>,
      <<"\\u1fe6", <<"\\u03a5", "\\u0342">>>>,
      <<"\\u1fe7", <<"\\u03a5", "\\u0308", "\\u0342">>>>,
      <<"\\u1ff2", <<"\\u1ffa", "\\u0399">>>>, <<"\\u1ff3", <<"\\u03a9", "\\u0399">>>>,
      <<"\\u1ff4", <<"\\u038f", "\\u0399">>>>, <<"\\u1ff6", <<"\\u03a9", "\\u0342">>>>,
      <<"\\u1ff7", <<"\\u03a9", "\\u0342", "\\u0399">>>>,
      <<"\\u1ffc", <<"\\u03a9", "\\u0399">>>>, <<"\\u214e", <<"\\u2132">>>>,
      <<"\\u2170", <<"\\u2160">>>>, <<"\\u2171", <<"\\u2161">>>>, <<"\\u2172", <<"\\u2162">>>>,
      <<"\\u2173", <<"\\u2163">>>>, <<"\\u2174", <<"\\u2164">>>>, <<"\\u2175", <<"\\u2165">>>>,
      <<"\\u2176", <<"\\u2166">>>>, <<"\\u2177", <<"\\u2167">>>>, <<"\\u2178", <<"\\u2168">>>>,
      <<"\\u2179", <<"\\u2169">>>>, <<"\\u217a", <<"\\u216a">>>>, <<"\\u217b", <<"\\u216b">>>>,
      <<"\\u217c", <<"\\u216c">>>>, <<"\\u217d", <<"\\u216d">>>>, <<"\\u217e", <<"\\u216e">>>>,
      <<"\\u217f", <<"\\u216f">>>>, <<"\\u2184", <<"\\u2183">>>>, <<"\\u24d0", <<"\\u24b6">>>>,
      <<"\\u24d1", <<"\\u24b7">>>>, <<"\\u24d2", <<"\\u24b8">>>>, <<"\\u24d3", <<"\\u24b9">>>>,
      <<"\\u24d4", <<"\\u24ba">>>>, <<"\\u24d5", <<"\\u24bb">>>>, <<"\\u24d6", <<"\\u24bc">>>>,
      <<"\\u24d7", <<"\\u24bd">>>>, <<"\\u24d8", <<"\\u24be">>>>, <<"\\u24d9", <<"\\u24bf">>>>,
      <<"\\u24da", <<"\\u24c0">>>>, <<"\\u24db", <<"\\u24c1">>>>, <<"\\u24dc", <<"\\u24c2">>>>,
      <<"\\u24dd", <<"\\u24c3">>>>, <<"\\u24de", <<"\\u24c4">>>>, <<"\\u24df", <<"\\u24c5">>>>,
      <<"\\u24e0", <<"\\u24c6">>>>, <<"\\u24e1", <<"\\u24c7">>>>, <<"\\u24e2", <<"\\u24c8">>>>,
      <<"\\u24e3", <<"\\u24c9">>>>, <<"\\u24e4", <<"\\u24ca">>>>, <<"\\u24e5", <<"\\u24cb">>>>,
      <<"\\u24e6", <<"\\u24cc">>>>, <<"\\u24e7", <<"\\u24cd">>>>, <<"\\u24e8", <<"\\u24ce">>>>,
      <<"\\u24e9", <<"\\u24cf">>>>, <<"\\u2c30", <<"\\u2c00">>>>, <<"\\u2c31", <<"\\u2c01">>>>,
      <<"\\u2c32", <<"\\u2c02">>>>, <<"\\u2c33", <<"\\u2c03">>>>, <<"\\u2c34", <<"\\u2c04">>>>,
      <<"\\u2c35", <<"\\u2c05">>>>, <<"\\u2c36", <<"\\u2c06">>>>, <<"\\u2c37", <<"\\u2c07">>>>,
      <<"\\u2c38", <<"\\u2c08">>>>, <<"\\u2c39", <<"\\u2c09">>>>, <<"\\u2c3a", <<"\\u2c0a">>>>,
      <<"\\u2c3b", <<"\\u2c0b">>>>, <<"\\u2c3c", <<"\\u2c0c">>>>, <<"\\u2c3d", <<"\\u2c0d">>>>,
      <<"\\u2c3e", <<"\\u2c0e">>>>, <<"\\u2c3f", <<"\\u2c0f">>>>, <<"\\u2c40", <<"\\u2c10">>>>,
      <<"\\u2c41", <<"\\u2c11">>>>, <<"\\u2c42", <<"\\u2c12">>>>, <<"\\u2c43", <<"\\u2c13">>>>,
      <<"\\u2c44", <<"\\u2c14">>>>, <<"\\u2c45", <<"\\u2c15">>>>, <<"\\u2c46", <<"\\u2c16">>>>,
      <<"\\u2c47", <<"\\u2c17">>>>, <<"\\u2c48", <<"\\u2c18">>>>, <<"\\u2c49", <<"\\u2c19">>>>,
      <<"\\u2c4a", <<"\\u2c1a">>>>, <<"\\u2c4b", <<"\\u2c1b">>>>, <<"\\u2c4c", <<"\\u2c1c">>>>,
      <<"\\u2c4d", <<"\\u2c1d">>>>, <<"\\u2c4e", <<"\\u2c1e">>>>, <<"\\u2c4f", <<"\\u2c1f">>>>,
      <<"\\u2c50", <<"\\u2c20">>>>, <<"\\u2c51", <<"\\u2c21">>>>, <<"\\u2c52", <<"\\u2c22">>>>,
      <<"\\u2c53", <<"\\u2c23">>>>, <<"\\u2c54", <<"\\u2c24">>>>, <<"\\u2c55", <<"\\u2c25">>>>,
      <<"\\u2c56", <<"\\u2c26">>>>, <<"\\u2c57", <<"\\u2c27">>>>, <<"\\u2c58", <<"\\u2c28">>>>,
      <<"\\u2c59", <<"\\u2c29">>>>, <<"\\u2c5a", <<"\\u2c2a">>>>, <<"\\u2c5b", <<"\\u2c2b">>>>,
      <<"\\u2c5c", <<"\\u2c2c">>>>, <<"\\u2c5d", <<"\\u2c2d">>>>, <<"\\u2c5e", <<"\\u2c2e">>>>,
      <<"\\u2c5f", <<"\\u2c2f">>>>, <<"\\u2c61", <<"\\u2c60">>>>, <<"\\u2c65", <<"\\u023a">>>>,
      <<"\\u2c66", <<"\\u023e">>>>, <<"\\u2c68", <<"\\u2c67">>>>, <<"\\u2c6a", <<"\\u2c69">>>>,
      <<"\\u2c6c", <<"\\u2c6b">>>>, <<"\\u2c73", <<"\\u2c72">>>>, <<"\\u2c76", <<"\\u2c75">>>>,
      <<"\\u2c81", <<"\\u2c80">>>>, <<"\\u2c83", <<"\\u2c82">>>>, <<"\\u2c85", <<"\\u2c84">>>>,
      <<"\\u2c87", <<"\\u2c86">>>>, <<"\\u2c89", <<"\\u2c88">>>>, <<"\\u2c8b", <<"\\u2c8a">>>>,
      <<"\\u2c8d", <<"\\u2c8c">>>>, <<"\\u2c8f", <<"\\u2c8e">>>>, <<"\\u2c91", <<"\\u2c90">>>>,
      <<"\\u2c93", <<"\\u2c92">>>>, <<"\\u2c95", <<"\\u2c94">>>>, <<"\\u2c97", <<"\\u2c96">>>>,
      <<"\\u2c99", <<"\\u2c98">>>>, <<"\\u2c9b", <<"\\u2c9a">>>>, <<"\\u2c9d", <<"\\u2c9c">>>>,
      <<"\\u2c9f", <<"\\u2c9e">>>>, <<"\\u2ca1", <<"\\u2ca0">>>>, <<"\\u2ca3", <<"\\u2ca2">>>>,
      <<"\\u2ca5", <<"\\u2ca4">>>>, <<"\\u2ca7", <<"\\u2ca6">>>>, <<"\\u2ca9", <<"\\u2ca8">>>>,
      <<"\\u2cab", <<"\\u2caa">>>>, <<"\\u2cad", <<"\\u2cac">>>>, <<"\\u2caf", <<"\\u2cae">>>>,
      <<"\\u2cb1", <<"\\u2cb0">>>>, <<"\\u2cb3", <<"\\u2cb2">>>>, <<"\\u2cb5", <<"\\u2cb4">>>>,
      <<"\\u2cb7", <<"\\u2cb6">>>>, <<"\\u2cb9", <<"\\u2cb8">>>>, <<"\\u2cbb", <<"\\u2cba">>>>,
      <<"\\u2cbd", <<"\\u2cbc">>>>, <<"\\u2cbf", <<"\\u2cbe">>>>, <<"\\u2cc1", <<"\\u2cc0">>>>,
      <<"\\u2cc3", <<"\\u2cc2">>>>, <<"\\u2cc5", <<"\\u2cc4">>>>, <<"\\u2cc7", <<"\\u2cc6">>>>,
      <<"\\u2cc9", <<"\\u2cc8">>>>, <<"\\u2ccb", <<"\\u2cca">>>>, <<"\\u2ccd", <<"\\u2ccc">>>>,
      <<"\\u2ccf", <<"\\u2cce">>>>, <<"\\u2cd1", <<"\\u2cd0">>>>, <<"\\u2cd3", <<"\\u2cd2">>>>,
      <<"\\u2cd5", <<"\\u2cd4">>>>, <<"\\u2cd7", <<"\\u2cd6">>>>, <<"\\u2cd9", <<"\\u2cd8">>>>,
      <<"\\u2cdb", <<"\\u2cda">>>>, <<"\\u2cdd", <<"\\u2cdc">>>>, <<"\\u2cdf", <<"\\u2cde">>>>,
      <<"\\u2ce1", <<"\\u2ce0">>>>, <<"\\u2ce3", <<"\\u2ce2">>>>, <<"\\u2cec", <<"\\u2ceb">>>>,
      <<"\\u2cee", <<"\\u2ced">>>>, <<"\\u2cf3", <<"\\u2cf2">>>>, <<"\\u2d00", <<"\\u10a0">>>>,
      <<"\\u2d01", <<"\\u10a1">>>>, <<"\\u2d02", <<"\\u10a2">>>>, <<"\\u2d03", <<"\\u10a3">>>>,
      <<"\\u2d04", <<"\\u10a4">>>>, <<"\\u2d05", <<"\\u10a5">>>>, <<"\\u2d06", <<"\\u10a6">>>>,
      <<"\\u2d07", <<"\\u10a7">>>>, <<"\\u2d08", <<"\\u10a8">>>>, <<"\\u2d09", <<"\\u10a9">>>>,
      <<"\\u2d0a", <<"\\u10aa">>>>, <<"\\u2d0b", <<"\\u10ab">>>>, <<"\\u2d0c", <<"\\u10ac">>>>,
      <<"\\u2d0d", <<"\\u10ad">>>>, <<"\\u2d0e", <<"\\u10ae">>>>, <<"\\u2d0f", <<"\\u10af">>>>,
      <<"\\u2d10", <<"\\u10b0">>>>, <<"\\u2d11", <<"\\u10b1">>>>, <<"\\u2d12", <<"\\u10b2">>>>,
      <<"\\u2d13", <<"\\u10b3">>>>, <<"\\u2d14", <<"\\u10b4">>>>, <<"\\u2d15", <<"\\u10b5">>>>,
      <<"\\u2d16", <<"\\u10b6">>>>, <<"\\u2d17", <<"\\u10b7">>>>, <<"\\u2d18", <<"\\u10b8">>>>,
      <<"\\u2d19", <<"\\u10b9">>>>, <<"\\u2d1a", <<"\\u10ba">>>>, <<"\\u2d1b", <<"\\u10bb">>>>,
      <<"\\u2d1c", <<"\\u10bc">>>>, <<"\\u2d1d", <<"\\u10bd">>>>, <<"\\u2d1e", <<"\\u10be">>>>,
      <<"\\u2d1f", <<"\\u10bf">>>>, <<"\\u2d20", <<"\\u10c0">>>>, <<"\\u2d21", <<"\\u10c1">>>>,
      <<"\\u2d22", <<"\\u10c2">>>>, <<"\\u2d23", <<"\\u10c3">>>>, <<"\\u2d24", <<"\\u10c4">>>>,
      <<"\\u2d25", <<"\\u10c5">>>>, <<"\\u2d27", <<"\\u10c7">>>>, <<"\\u2d2d", <<"\\u10cd">>>>,
      <<"\\ua641", <<"\\ua640">>>>, <<"\\ua643", <<"\\ua642">>>>, <<"\\ua645", <<"\\ua644">>>>,
      <<"\\ua647", <<"\\ua646">>>>, <<"\\ua649", <<"\\ua648">>>>, <<"\\ua64b", <<"\\ua64a">>>>,
      <<"\\ua64d", <<"\\ua64c">>>>, <<"\\ua64f", <<"\\ua64e">>>>, <<"\\ua651", <<"\\ua650">>>>,
      <<"\\ua653", <<"\\ua652">>>>, <<"\\ua655", <<"\\ua654">>>>, <<"\\ua657", <<"\\ua656">>>>,
      <<"\\ua659", <<"\\ua658">>>>, <<"\\ua65b", <<"\\ua65a">>>>, <<"\\ua65d", <<"\\ua65c">>>>,
      <<"\\ua65f", <<"\\ua65e">>>>, <<"\\ua661", <<"\\ua660">>>>, <<"\\ua663", <<"\\ua662">>>>,
      <<"\\ua665", <<"\\ua664">>>>, <<"\\ua667", <<"\\ua666">>>>, <<"\\ua669", <<"\\ua668">>>>,
      <<"\\ua66b", <<"\\ua66a">>>>, <<"\\ua66d", <<"\\ua66c">>>>, <<"\\ua681", <<"\\ua680">>>>,
      <<"\\ua683", <<"\\ua682">>>>, <<"\\ua685", <<"\\ua684">>>>, <<"\\ua687", <<"\\ua686">>>>,
      <<"\\ua689", <<"\\ua688">>>>, <<"\\ua68b", <<"\\ua68a">>>>, <<"\\ua68d", <<"\\ua68c">>>>,
      <<"\\ua68f", <<"\\ua68e">>>>, <<"\\ua691", <<"\\ua690">>>>, <<"\\ua693", <<"\\ua692">>>>,
      <<"\\ua695", <<"\\ua694">>>>, <<"\\ua697", <<"\\ua696">>>>, <<"\\ua699", <<"\\ua698">>>>,
      <<"\\ua69b", <<"\\ua69a">>>>, <<"\\ua723", <<"\\ua722">>>>, <<"\\ua725", <<"\\ua724">>>>,
      <<"\\ua727", <<"\\ua726">>>>, <<"\\ua729", <<"\\ua728">>>>, <<"\\ua72b", <<"\\ua72a">>>>,
      <<"\\ua72d", <<"\\ua72c">>>>, <<"\\ua72f", <<"\\ua72e">>>>, <<"\\ua733", <<"\\ua732">>>>,
      <<"\\ua735", <<"\\ua734">>>>, <<"\\ua737", <<"\\ua736">>>>, <<"\\ua739", <<"\\ua738">>>>,
      <<"\\ua73b", <<"\\ua73a">>>>, <<"\\ua73d", <<"\\ua73c">>>>, <<"\\ua73f", <<"\\ua73e">>>>,
      <<"\\ua741", <<"\\ua740">>>>, <<"\\ua743", <<"\\ua742">>>>, <<"\\ua745", <<"\\ua744">>>>,
      <<"\\ua747", <<"\\ua746">>>>, <<"\\ua749", <<"\\ua748">>>>, <<"\\ua74b", <<"\\ua74a">>>>,
      <<"\\ua74d", <<"\\ua74c">>>>, <<"\\ua74f", <<"\\ua74e">>>>, <<"\\ua751", <<"\\ua750">>>>,
      <<"\\ua753", <<"\\ua752">>>>, <<"\\ua755", <<"\\ua754">>>>, <<"\\ua757", <<"\\ua756">>>>,
      <<"\\ua759", <<"\\ua758">>>>, <<"\\ua75b", <<"\\ua75a">>>>, <<"\\ua75d", <<"\\ua75c">>>>,
      <<"\\ua75f", <<"\\ua75e">>>>, <<"\\ua761", <<"\\ua760">>>>, <<"\\ua763", <<"\\ua762">>>>,
      <<"\\ua765", <<"\\ua764">>>>, <<"\\ua767", <<"\\ua766">>>>, <<"\\ua769", <<"\\ua768">>>>,
      <<"\\ua76b", <<"\\ua76a">>>>, <<"\\ua76d", <<"\\ua76c">>>>, <<"\\ua76f", <<"\\ua76e">>>>,
      <<"\\ua77a", <<"\\ua779">>>>, <<"\\ua77c", <<"\\ua77b">>>>, <<"\\ua77f", <<"\\ua77e">>>>,
      <<"\\ua781", <<"\\ua780">>>>, <<"\\ua783", <<"\\ua782">>>>, <<"\\ua785", <<"\\ua784">>>>,
      <<"\\ua787", <<"\\ua786">>>>, <<"\\ua78c", <<"\\ua78b">>>>, <<"\\ua791", <<"\\ua790">>>>,
      <<"\\ua793", <<"\\ua792">>>>, <<"\\ua794", <<"\\ua7c4">>>>, <<"\\ua797", <<"\\ua796">>>>,
      <<"\\ua799", <<"\\ua798">>>>, <<"\\ua79b", <<"\\ua79a">>>>, <<"\\ua79d", <<"\\ua79c">>>>,
      <<"\\ua79f", <<"\\ua79e">>>>, <<"\\ua7a1", <<"\\ua7a0">>>>, <<"\\ua7a3", <<"\\ua7a2">>>>,
      <<"\\ua7a5", <<"\\ua7a4">>>>, <<"\\ua7a7", <<"\\ua7a6">>>>, <<"\\ua7a9", <<"\\ua7a8">>>>,
      <<"\\ua7b5", <<"\\ua7b4">>>>, <<"\\ua7b7", <<"\\ua7b6">>>>, <<"\\ua7b9", <<"\\ua7b8">>>>,
      <<"\\ua7bb", <<"\\ua7ba">>>>, <<"\\ua7bd", <<"\\ua7bc">>>>, <<"\\ua7bf", <<"\\ua7be">>>>,
      <<"\\ua7c1", <<"\\ua7c0">>>>, <<"\\ua7c3", <<"\\ua7c2">>>>, <<"\\ua7c8", <<"\\ua7c7">>>>,
      <<"\\ua7ca", <<"\\ua7c9">>>>, <<"\\ua7d1", <<"\\ua7d0">>>>, <<"\\ua7d7", <<"\\ua7d6">>>>,
      <<"\\ua7d9", <<"\\ua7d8">>>>, <<"\\ua7f6", <<"\\ua7f5">>>>, <<"\\uab53", <<"\\ua7b3">>>>,
      <<"\\uab70", <<"\\u13a0">>>>, <<"\\uab71", <<"\\u13a1">>>>, <<"\\uab72", <<"\\u13a2">>>>,
      <<"\\uab73", <<"\\u13a3">>>>, <<"\\uab74", <<"\\u13a4">>>>, <<"\\uab75", <<"\\u13a5">>>>,
      <<"\\uab76", <<"\\u13a6">>>>, <<"\\uab77", <<"\\u13a7">>>>, <<"\\uab78", <<"\\u13a8">>>>,
      <<"\\uab79", <<"\\u13a9">>>>, <<"\\uab7a", <<"\\u13aa">>>>, <<"\\uab7b", <<"\\u13ab">>>>,
      <<"\\uab7c", <<"\\u13ac">>>>, <<"\\uab7d", <<"\\u13ad">>>>, <<"\\uab7e", <<"\\u13ae">>>>,
      <<"\\uab7f", <<"\\u13af">>>>, <<"\\uab80", <<"\\u13b0">>>>, <<"\\uab81", <<"\\u13b1">>>>,
      <<"\\uab82", <<"\\u13b2">>>>, <<"\\uab83", <<"\\u13b3">>>>, <<"\\uab84", <<"\\u13b4">>>>,
      <<"\\uab85", <<"\\u13b5">>>>, <<"\\uab86", <<"\\u13b6">>>>, <<"\\uab87", <<"\\u13b7">>>>,
      <<"\\uab88", <<"\\u13b8">>>>, <<"\\uab89", <<"\\u13b9">>>>, <<"\\uab8a", <<"\\u13ba">>>>,
      <<"\\uab8b", <<"\\u13bb">>>>, <<"\\uab8c", <<"\\u13bc">>>>, <<"\\uab8d", <<"\\u13bd">>>>,
      <<"\\uab8e", <<"\\u13be">>>>, <<"\\uab8f", <<"\\u13bf">>>>, <<"\\uab90", <<"\\u13c0">>>>,
      <<"\\uab91", <<"\\u13c1">>>>, <<"\\uab92", <<"\\u13c2">>>>, <<"\\uab93", <<"\\u13c3">>>>,
      <<"\\uab94", <<"\\u13c4">>>>, <<"\\uab95", <<"\\u13c5">>>>, <<"\\uab96", <<"\\u13c6">>>>,
      <<"\\uab97", <<"\\u13c7">>>>, <<"\\uab98", <<"\\u13c8">>>>, <<"\\uab99", <<"\\u13c9">>>>,
      <<"\\uab9a", <<"\\u13ca">>>>, <<"\\uab9b", <<"\\u13cb">>>>, <<"\\uab9c", <<"\\u13cc">>>>,
      <<"\\uab9d", <<"\\u13cd">>>>, <<"\\uab9e", <<"\\u13ce">>>>, <<"\\uab9f", <<"\\u13cf">>>>,
      <<"\\uaba0", <<"\\u13d0">>>>, <<"\\uaba1", <<"\\u13d1">>>>, <<"\\uaba2", <<"\\u13d2">>>>,
      <<"\\uaba3", <<"\\u13d3">>>>, <<"\\uaba4", <<"\\u13d4">>>>, <<"\\uaba5", <<"\\u13d5">>>>,
      <<"\\uaba6", <<"\\u13d6">>>>, <<"\\uaba7", <<"\\u13d7">>>>, <<"\\uaba8", <<"\\u13d8">>>>,
      <<"\\uaba9", <<"\\u13d9">>>>, <<"\\uabaa", <<"\\u13da">>>>, <<"\\uabab", <<"\\u13db">>>>,
      <<"\\uabac", <<"\\u13dc">>>>, <<"\\uabad", <<"\\u13dd">>>>, <<"\\uabae", <<"\\u13de">>>>,
      <<"\\uabaf", <<"\\u13df">>>>, <<"\\uabb0", <<"\\u13e0">>>>, <<"\\uabb1", <<"\\u13e1">>>>,
      <<"\\uabb2", <<"\\u13e2">>>>, <<"\\uabb3", <<"\\u13e3">>>>, <<"\\uabb4", <<"\\u13e4">>>>,
      <<"\\uabb5", <<"\\u13e5">>>>, <<"\\uabb6", <<"\\u13e6">>>>, <<"\\uabb7", <<"\\u13e7">>>>,
      <<"\\uabb8", <<"\\u13e8">>>>, <<"\\uabb9", <<"\\u13e9">>>>, <<"\\uabba", <<"\\u13ea">>>>,
      <<"\\uabbb", <<"\\u13eb">>>>, <<"\\uabbc", <<"\\u13ec">>>>, <<"\\uabbd", <<"\\u13ed">>>>,
      <<"\\uabbe", <<"\\u13ee">>>>, <<"\\uabbf", <<"\\u13ef">>>>, <<"\\ufb00", <<"F", "F">>>>,
      <<"\\ufb01", <<"F", "I">>>>, <<"\\ufb02", <<"F", "L">>>>,
      <<"\\ufb03", <<"F", "F", "I">>>>, <<"\\ufb04", <<"F", "F", "L">>>>,
      <<"\\ufb05", <<"S", "T">>>>, <<"\\ufb06", <<"S", "T">>>>,
      <<"\\ufb13", <<"\\u0544", "\\u0546">>>>, <<"\\ufb14", <<"\\u0544", "\\u0535">>>>,
      <<"\\ufb15", <<"\\u0544", "\\u053b">>>>, <<"\\ufb16", <<"\\u054e", "\\u0546">>>>,
      <<"\\ufb17", <<"\\u0544", "\\u053d">>>>, <<"\\uff41", <<"\\uff21">>>>,
      <<"\\uff42", <<"\\uff22">>>>, <<"\\uff43", <<"\\uff23">>>>, <<"\\uff44", <<"\\uff24">>>>,
      <<"\\uff45", <<"\\uff25">>>>, <<"\\uff46", <<"\\uff26">>>>, <<"\\uff47", <<"\\uff27">>>>,
      <<"\\uff48", <<"\\uff28">>>>, <<"\\uff49", <<"\\uff29">>>>, <<"\\uff4a", <<"\\uff2a">>>>,
      <<"\\uff4b", <<"\\uff2b">>>>, <<"\\uff4c", <<"\\uff2c">>>>, <<"\\uff4d", <<"\\uff2d">>>>,
      <<"\\uff4e", <<"\\uff2e">>>>, <<"\\uff4f", <<"\\uff2f">>>>, <<"\\uff50", <<"\\uff30">>>>,
      <<"\\uff51", <<"\\uff31">>>>, <<"\\uff52", <<"\\uff32">>>>, <<"\\uff53", <<"\\uff33">>>>,
      <<"\\uff54", <<"\\uff34">>>>, <<"\\uff55", <<"\\uff35">>>>, <<"\\uff56", <<"\\uff36">>>>,
      <<"\\uff57", <<"\\uff37">>>>, <<"\\uff58", <<"\\uff38">>>>, <<"\\uff59", <<"\\uff39">>>>,
      <<"\\uff5a", <<"\\uff3a">>>>, <<"\\U00010428", <<"\\U00010400">>>>,
      <<"\\U00010429", <<"\\U00010401">>>>, <<"\\U0001042a", <<"\\U00010402">>>>,
      <<"\\U0001042b", <<"\\U00010403">>>>, <<"\\U0001042c", <<"\\U00010404">>>>,
      <<"\\U0001042d", <<"\\U00010405">>>>, <<"\\U0001042e", <<"\\U00010406">>>>,
      <<"\\U0001042f", <<"\\U00010407">>>>, <<"\\U00010430", <<"\\U00010408">>>>,
      <<"\\U00010431", <<"\\U00010409">>>>, <<"\\U00010432", <<"\\U0001040a">>>>,
      <<"\\U00010433", <<"\\U0001040b">>>>, <<"\\U00010434", <<"\\U0001040c">>>>,
      <<"\\U00010435", <<"\\U0001040d">>>>, <<"\\U00010436", <<"\\U0001040e">>>>,
      <<"\\U00010437", <<"\\U0001040f">>>>, <<"\\U00010438", <<"\\U00010410">>>>,
      <<"\\U00010439", <<"\\U00010411">>>>, <<"\\U0001043a", <<"\\U00010412">>>>,
      <<"\\U0001043b", <<"\\U00010413">>>>, <<"\\U0001043c", <<"\\U00010414">>>>,
      <<"\\U0001043d", <<"\\U00010415">>>>, <<"\\U0001043e", <<"\\U00010416">>>>,
      <<"\\U0001043f", <<"\\U00010417">>>>, <<"\\U00010440", <<"\\U00010418">>>>,
      <<"\\U00010441", <<"\\U00010419">>>>, <<"\\U00010442", <<"\\U0001041a">>>>,
      <<"\\U00010443", <<"\\U0001041b">>>>, <<"\\U00010444", <<"\\U0001041c">>>>,
      <<"\\U00010445", <<"\\U0001041d">>>>, <<"\\U00010446", <<"\\U0001041e">>>>,
      <<"\\U00010447", <<"\\U0001041f">>>>, <<"\\U00010448", <<"\\U00010420">>>>,
      <<"\\U00010449", <<"\\U00010421">>>>, <<"\\U0001044a", <<"\\U00010422">>>>,
      <<"\\U0001044b", <<"\\U00010423">>>>, <<"\\U0001044c", <<"\\U00010424">>>>,
      <<"\\U0001044d", <<"\\U00010425">>>>, <<"\\U0001044e", <<"\\U00010426">>>>,
      <<"\\U0001044f", <<"\\U00010427">>>>, <<"\\U000104d8", <<"\\U000104b0">>>>,
      <<"\\U000104d9", <<"\\U000104b1">>>>, <<"\\U000104da", <<"\\U000104b2">>>>,
      <<"\\U000104db", <<"\\U000104b3">>>>, <<"\\U000104dc", <<"\\U000104b4">>>>,
      <<"\\U000104dd", <<"\\U000104b5">>>>, <<"\\U000104de", <<"\\U000104b6">>>>,
      <<"\\U000104df", <<"\\U000104b7">>>>, <<"\\U000104e0", <<"\\U000104b8">>>>,
      <<"\\U000104e1", <<"\\U000104b9">>>>, <<"\\U000104e2", <<"\\U000104ba">>>>,
      <<"\\U000104e3", <<"\\U000104bb">>>>, <<"\\U000104e4", <<"\\U000104bc">>>>,
      <<"\\U000104e5", <<"\\U000104bd">>>>, <<"\\U000104e6", <<"\\U000104be">>>>,
      <<"\\U000104e7", <<"\\U000104bf">>>>, <<"\\U000104e8", <<"\\U000104c0">>>>,
      <<"\\U000104e9", <<"\\U000104c1">>>>, <<"\\U000104ea", <<"\\U000104c2">>>>,
      <<"\\U000104eb", <<"\\U000104c3">>>>, <<"\\U000104ec", <<"\\U000104c4">>>>,
      <<"\\U000104ed", <<"\\U000104c5">>>>, <<"\\U000104ee", <<"\\U000104c6">>>>,
      <<"\\U000104ef", <<"\\U000104c7">>>>, <<"\\U000104f0", <<"\\U000104c8">>>>,
      <<"\\U000104f1", <<"\\U000104c9">>>>, <<"\\U000104f2", <<"\\U000104ca">>>>,
      <<"\\U000104f3", <<"\\U000104cb">>>>, <<"\\U000104f4", <<"\\U000104cc">>>>,
      <<"\\U000104f5", <<"\\U000104cd">>>>, <<"\\U000104f6", <<"\\U000104ce">>>>,
      <<"\\U000104f7", <<"\\U000104cf">>>>, <<"\\U000104f8", <<"\\U000104d0">>>>,
      <<"\\U000104f9", <<"\\U000104d1">>>>, <<"\\U000104fa", <<"\\U000104d2">>>>,
      <<"\\U000104fb", <<"\\U000104d3">>>>, <<"\\U00010597", <<"\\U00010570">>>>,
      <<"\\U00010598", <<"\\U00010571">>>>, <<"\\U00010599", <<"\\U00010572">>>>,
      <<"\\U0001059a", <<"\\U00010573">>>>, <<"\\U0001059b", <<"\\U00010574">>>>,
      <<"\\U0001059c", <<"\\U00010575">>>>, <<"\\U0001059d", <<"\\U00010576">>>>,
      <<"\\U0001059e", <<"\\U00010577">>>>, <<"\\U0001059f", <<"\\U00010578">>>>,
      <<"\\U000105a0", <<"\\U00010579">>>>, <<"\\U000105a1", <<"\\U0001057a">>>>,
      <<"\\U000105a3", <<"\\U0001057c">>>>, <<"\\U000105a4", <<"\\U0001057d">>>>,
      <<"\\U000105a5", <<"\\U0001057e">>>>, <<"\\U000105a6", <<"\\U0001057f">>>>,
      <<"\\U000105a7", <<"\\U00010580">>>>, <<"\\U000105a8", <<"\\U00010581">>>>,
      <<"\\U000105a9", <<"\\U00010582">>>>, <<"\\U000105aa", <<"\\U00010583">>>>,
      <<"\\U000105ab", <<"\\U00010584">>>>, <<"\\U000105ac", <<"\\U00010585">>>>,
      <<"\\U000105ad", <<"\\U00010586">>>>, <<"\\U000105ae", <<"\\U00010587">>>>,
      <<"\\U000105af", <<"\\U00010588">>>>, <<"\\U000105b0", <<"\\U00010589">>>>,
      <<"\\U000105b1", <<"\\U0001058a">>>>, <<"\\U000105b3", <<"\\U0001058c">>>>,
      <<"\\U000105b4", <<"\\U0001058d">>>>, <<"\\U000105b5", <<"\\U0001058e">>>>,
      <<"\\U000105b6", <<"\\U0001058f">>>>, <<"\\U000105b7", <<"\\U00010590">>>>,
      <<"\\U000105b8", <<"\\U00010591">>>>, <<"\\U000105b9", <<"\\U00010592">>>>,
      <<"\\U000105bb", <<"\\U00010594">>>>, <<"\\U000105bc", <<"\\U00010595">>>>,
      <<"\\U00010cc0", <<"\\U00010c80">>>>, <<"\\U00010cc1", <<"\\U00010c81">>>>,
      <<"\\U00010cc2", <<"\\U00010c82">>>>, <<"\\U00010cc3", <<"\\U00010c83">>>>,
      <<"\\U00010cc4", <<"\\U00010c84">>>>, <<"\\U00010cc5", <<"\\U00010c85">>>>,
      <<"\\U00010cc6", <<"\\U00010c86">>>>, <<"\\U00010cc7", <<"\\U00010c87">>>>,
      <<"\\U00010cc8", <<"\\U00010c88">>>>, <<"\\U00010cc9", <<"\\U00010c89">>>>,
      <<"\\U00010cca", <<"\\U00010c8a">>>>, <<"\\U00010ccb", <<"\\U00010c8b">>>>,
      <<"\\U00010ccc", <<"\\U00010c8c">>>>, <<"\\U00010ccd", <<"\\U00010c8d">>>>,
      <<"\\U00010cce", <<"\\U00010c8e">>>>, <<"\\U00010ccf", <<"\\U00010c8f">>>>,
      <<"\\U00010cd0", <<"\\U00010c90">>>>, <<"\\U00010cd1", <<"\\U00010c91">>>>,
      <<"\\U00010cd2", <<"\\U00010c92">>>>, <<"\\U00010cd3", <<"\\U00010c93">>>>,
      <<"\\U00010cd4", <<"\\U00010c94">>>>, <<"\\U00010cd5", <<"\\U00010c95">>>>,
      <<"\\U00010cd6", <<"\\U00010c96">>>>, <<"\\U00010cd7", <<"\\U00010c97">>>>,
      <<"\\U00010cd8", <<"\\U00010c98">>>>, <<"\\U00010cd9", <<"\\U00010c99">>>>,
      <<"\\U00010cda", <<"\\U00010c9a">>>>, <<"\\U00010cdb", <<"\\U00010c9b">>>>,
      <<"\\U00010cdc", <<"\\U00010c9c">>>>, <<"\\U00010cdd", <<"\\U00010c9d">>>>,
      <<"\\U00010cde", <<"\\U00010c9e">>>>, <<"\\U00010cdf", <<"\\U00010c9f">>>>,
      <<"\\U00010ce0", <<"\\U00010ca0">>>>, <<"\\U00010ce1", <<"\\U00010ca1">>>>,
      <<"\\U00010ce2", <<"\\U00010ca2">>>>, <<"\\U00010ce3", <<"\\U00010ca3">>>>,
      <<"\\U00010ce4", <<"\\U00010ca4">>>>, <<"\\U00010ce5", <<"\\U00010ca5">>>>,
      <<"\\U00010ce6", <<"\\U00010ca6">>>>, <<"\\U00010ce7", <<"\\U00010ca7">>>>,
      <<"\\U00010ce8", <<"\\U00010ca8">>>>, <<"\\U00010ce9", <<"\\U00010ca9">>>>,
      <<"\\U00010cea", <<"\\U00010caa">>>>, <<"\\U00010ceb", <<"\\U00010cab">>>>,
      <<"\\U00010cec", <<"\\U00010cac">>>>, <<"\\U00010ced", <<"\\U00010cad">>>>,
      <<"\\U00010cee", <<"\\U00010cae">>>>, <<"\\U00010cef", <<"\\U00010caf">>>>,
      <<"\\U00010cf0", <<"\\U00010cb0">>>>, <<"\\U00010cf1", <<"\\U00010cb1">>>>,
      <<"\\U00010cf2", <<"\\U00010cb2">>>>, <<"\\U000118c0", <<"\\U000118a0">>>>,
      <<"\\U000118c1", <<"\\U000118a1">>>>, <<"\\U000118c2", <<"\\U000118a2">>>>,
      <<"\\U000118c3", <<"\\U000118a3">>>>, <<"\\U000118c4", <<"\\U000118a4">>>>,
      <<"\\U000118c5", <<"\\U000118a5">>>>, <<"\\U000118c6", <<"\\U000118a6">>>>,
      <<"\\U000118c7", <<"\\U000118a7">>>>, <<"\\U000118c8", <<"\\U000118a8">>>>,
      <<"\\U000118c9", <<"\\U000118a9">>>>, <<"\\U000118ca", <<"\\U000118aa">>>>,
      <<"\\U000118cb", <<"\\U000118ab">>>>, <<"\\U000118cc", <<"\\U000118ac">>>>,
      <<"\\U000118cd", <<"\\U000118ad">>>>, <<"\\U000118ce", <<"\\U000118ae">>>>,
      <<"\\U000118cf", <<"\\U000118af">>>>, <<"\\U000118d0", <<"\\U000118b0">>>>,
      <<"\\U000118d1", <<"\\U000118b1">>>>, <<"\\U000118d2", <<"\\U000118b2">>>>,
      <<"\\U000118d3", <<"\\U000118b3">>>>, <<"\\U000118d4", <<"\\U000118b4">>>>,
      <<"\\U000118d5", <<"\\U000118b5">>>>, <<"\\U000118d6", <<"\\U000118b6">>>>,
      <<"\\U000118d7", <<"\\U000118b7">>>>, <<"\\U000118d8", <<"\\U000118b8">>>>,
      <<"\\U000118d9", <<"\\U000118b9">>>>, <<"\\U000118da", <<"\\U000118ba">>>>,
      <<"\\U000118db", <<"\\U000118bb">>>>, <<"\\U000118dc", <<"\\U000118bc">>>>,
      <<"\\U000118dd", <<"\\U000118bd">>>>, <<"\\U000118de", <<"\\U000118be">>>>,
      <<"\\U000118df", <<"\\U000118bf">>>>, <<"\\U00016e60", <<"\\U00016e40">>>>,
      <<"\\U00016e61", <<"\\U00016e41">>>>, <<"\\U00016e62", <<"\\U00016e42">>>>,
      <<"\\U00016e63", <<"\\U00016e43">>>>, <<"\\U00016e64", <<"\\U00016e44">>>>,
      <<"\\U00016e65", <<"\\U00016e45">>>>, <<"\\U00016e66", <<"\\U00016e46">>>>,
      <<"\\U00016e67", <<"\\U00016e47">>>>, <<"\\U00016e68", <<"\\U00016e48">>>>,
      <<"\\U00016e69", <<"\\U00016e49">>>>, <<"\\U00016e6a", <<"\\U00016e4a">>>>,
      <<"\\U00016e6b", <<"\\U00016e4b">>>>, <<"\\U00016e6c", <<"\\U00016e4c">>>>,
      <<"\\U00016e6d", <<"\\U00016e4d">>>>, <<"\\U00016e6e", <<"\\U00016e4e">>>>,
      <<"\\U00016e6f", <<"\\U00016e4f">>>>, <<"\\U00016e70", <<"\\U00016e50">>>>,
      <<"\\U00016e71", <<"\\U00016e51">>>>, <<"\\U00016e72", <<"\\U00016e52">>>>,
      <<"\\U00016e73", <<"\\U00016e53">>>>, <<"\\U00016e74", <<"\\U00016e54">>>>,
      <<"\\U00016e75", <<"\\U00016e55">>>>, <<"\\U00016e76", <<"\\U00016e56">>>>,
      <<"\\U00016e77", <<"\\U00016e57">>>>, <<"\\U00016e78", <<"\\U00016e58">>>>,
      <<"\\U00016e79", <<"\\U00016e59">>>>, <<"\\U00016e7a", <<"\\U00016e5a">>>>,
      <<"\\U00016e7b", <<"\\U00016e5b">>>>, <<"\\U00016e7c", <<"\\U00016e5c">>>>,
      <<"\\U00016e7d", <<"\\U00016e5d">>>>, <<"\\U00016e7e", <<"\\U00016e5e">>>>,
      <<"\\U00016e7f", <<"\\U00016e5f">>>>, <<"\\U0001e922", <<"\\U0001e900">>>>,
      <<"\\U0001e923", <<"\\U0001e901">>>>, <<"\\U0001e924", <<"\\U0001e902">>>>,
      <<"\\U0001e925", <<"\\U0001e903">>>>, <<"\\U0001e926", <<"\\U0001e904">>>>,
      <<"\\U0001e927", <<"\\U0001e905">>>>, <<"\\U0001e928", <<"\\U0001e906">>>>,
      <<"\\U0001e929", <<"\\U0001e907">>>>, <<"\\U0001e92a", <<"\\U0001e908">>>>,
      <<"\\U0001e92b", <<"\\U0001e909">>>>, <<"\\U0001e92c", <<"\\U0001e90a">>>>,
      <<"\\U0001e92d", <<"\\U0001e90b">>>>, <<"\\U0001e92e", <<"\\U0001e90c">>>>,
      <<"\\U0001e92f", <<"\\U0001e90d">>>>, <<"\\U0001e930", <<"\\U0001e90e">>>>,
      <<"\\U0001e931", <<"\\U0001e90f">>>>, <<"\\U0001e932", <<"\\U0001e910">>>>,
      <<"\\U0001e933", <<"\\U0001e911">>>>, <<"\\U0001e934", <<"\\U0001e912">>>>,
      <<"\\U0001e935", <<"\\U0001e913">>>>, <<"\\U0001e936", <<"\\U0001e914">>>>,
      <<"\\U0001e937", <<"\\U0001e915">>>>, <<"\\U0001e938", <<"\\U0001e916">>>>,
      <<"\\U0001e939", <<"\\U0001e917">>>>, <<"\\U0001e93a", <<"\\U0001e918">>>>,
      <<"\\U0001e93b", <<"\\U0001e919">>>>, <<"\\U0001e93c", <<"\\U0001e91a">>>>,
      <<"\\U0001e93d", <<"\\U0001e91b">>>>, <<"\\U0001e93e", <<"\\U0001e91c">>>>,
      <<"\\U0001e93f", <<"\\U0001e91d">>>>, <<"\\U0001e940", <<"\\U0001e91e">>>>,
      <<"\\U0001e941", <<"\\U0001e91f">>>>, <<"\\U0001e942", <<"\\U0001e920">>>>,
      <<"\\U0001e943", <<"\\U0001e921">>>>
    >>

\* The same as a function of the character.
UpperTable ==
    [c \in {UpperPairs[i][1] : i \in 1 .. Len(UpperPairs)} |->
        UpperPairs[CHOOSE i \in 1 .. Len(UpperPairs) : UpperPairs[i][1] = c][2]]

\* str.upper() on one character: a string.
UpperChar(c) == IF c \in DOMAIN UpperTable THEN UpperTable[c] ELSE <<c>>

RECURSIVE Upper(_)
\* args.user.upper()
Upper(str) ==
    IF str = <<>> THEN <<>> ELSE UpperChar(Head(str)) \o Upper(Tail(str))

RECURSIVE LStrip(_, _)
\* The string without its leading characters of set chars.
LStrip(str, chars) ==
    IF str # <<>> /\ Head(str) \in chars THEN LStrip(Tail(str), chars) ELSE str

RECURSIVE RStrip(_, _)
\* The string without its trailing characters of set chars.
RStrip(str, chars) ==
    IF str # <<>> /\ str[Len(str)] \in chars
    THEN RStrip(SubSeq(str, 1, Len(str) - 1), chars)
    ELSE str

\* str.strip() and str.strip(chars)
Strip(str, chars) == RStrip(LStrip(str, chars), chars)

\* `not password`: None and the empty string are both false.
Falsy(pw) == pw = None \/ pw = <<>>

\* line.startswith('ADB_ADMIN_PASSWORD=')
StartsWithKey(line) == line # <<>> /\ Head(line) = KeyPrefix

\* line.split('=', 1)[1].strip().strip('"\''): the first '=' of a line that
\* starts with the key is the one that ends the key.  Of the characters
\* strip() removes, a line of splitlines() has only those that end no line.
LineValue(line) == Strip(Strip(Tail(line), Whitespace), Quotes)

RECURSIVE FromEnvFile(_, _)
\* The for loop over the lines of the .env file: the first line that starts
\* with the key sets password and breaks; no such line leaves it as it was.
FromEnvFile(lines, pw) ==
    IF lines = <<>> THEN pw
    ELSE IF StartsWithKey(Head(lines)) THEN LineValue(Head(lines))
    ELSE FromEnvFile(Tail(lines), pw)

\* The password chain of main: the --password argument, else the built-in
\* default for user PANAMA_PAPERS, else the environment variable, else the
\* .env file (env_file.exists: [exists, lines]).
ResolvePassword(a, env, envFile) ==
    IF ~Falsy(a.password) THEN a.password
    ELSE IF Upper(a.user) = PANAMA_PAPERS THEN DefaultPassword
    ELSE IF ~Falsy(env) THEN env
    ELSE IF envFile.exists THEN FromEnvFile(envFile.lines, env)
    ELSE env

\* Mutant of AfterPassword: the `return` after the error message is missing.
AfterPasswordNoReturn(pw) == "wallet"

\* `if not password: print("Error: ..."); return`
AfterPassword(pw) == IF Falsy(pw) THEN "exit" ELSE "wallet"

\* Mutant of AfterWallet: the `return` after the error message is missing.
AfterWalletNoReturn(exists) == "connect"

\* `if wallet_password_file.exists(): ... else: print("Error: ..."); return`
AfterWallet(exists) == IF exists THEN "connect" ELSE "exit"

\* The status the process exits with: main returning is status 0, an
\* exception that leaves main is status 1.
ExitStatus == IF raisedBy = "none" THEN 0 ELSE 1

\* ------------------------------------------------------------------- dates
\* pd.isna is true of the missing-value marker of a CSV cell.
NaN == <<"NaN">>

\* The exception of strptime.
ValueError == <<"ValueError">>

\* [0-9] of a pattern.
DigitChars == {"0", "1", "2", "3", "4", "5", "6", "7", "8", "9"}

\* The decimal digits of Unicode 14.0.0 (category Nd), 0 to 9 of each of
\* its 66 scripts.
DigitBlocks ==
    <<
      <<"0", "1", "2", "3", "4", "5", "6", "7", "8", "9">>,
      <<"\\u0660", "\\u0661", "\\u0662", "\\u0663", "\\u0664", "\\u0665", "\\u0666", "\\u0667", "\\u0668", "\\u0669">>,
      <<"\\u06f0", "\\u06f1", "\\u06f2", "\\u06f3", "\\u06f4", "\\u06f5", "\\u06f6", "\\u06f7", "\\u06f8", "\\u06f9">>,
      <<"\\u07c0", "\\u07c1", "\\u07c2", "\\u07c3", "\\u07c4", "\\u07c5", "\\u07c6", "\\u07c7", "\\u07c8", "\\u07c9">>,
      <<"\\u0966", "\\u0967", "\\u0968", "\\u0969", "\\u096a", "\\u096b", "\\u096c", "\\u096d", "\\u096e", "\\u096f">>,
      <<"\\u09e6", "\\u09e7", "\\u09e8", "\\u09e9", "\\u09ea", "\\u09eb", "\\u09ec", "\\u09ed", "\\u09ee", "\\u09ef">>,
      <<"\\u0a66", "\\u0a67", "\\u0a68", "\\u0a69", "\\u0a6a", "\\u0a6b", "\\u0a6c", "\\u0a6d", "\\u0a6e", "\\u0a6f">>,
      <<"\\u0ae6", "\\u0ae7", "\\u0ae8", "\\u0ae9", "\\u0aea", "\\u0aeb", "\\u0aec", "\\u0aed", "\\u0aee", "\\u0aef">>,
      <<"\\u0b66", "\\u0b67", "\\u0b68", "\\u0b69", "\\u0b6a", "\\u0b6b", "\\u0b6c", "\\u0b6d", "\\u0b6e", "\\u0b6f">>,
      <<"\\u0be6", "\\u0be7", "\\u0be8", "\\u0be9", "\\u0bea", "\\u0beb", "\\u0bec", "\\u0bed", "\\u0bee", "\\u0bef">>,
      <<"\\u0c66", "\\u0c67", "\\u0c68", "\\u0c69", "\\u0c6a", "\\u0c6b", "\\u0c6c", "\\u0c6d", "\\u0c6e", "\\u0c6f">>,
      <<"\\u0ce6", "\\u0ce7", "\\u0ce8", "\\u0ce9", "\\u0cea", "\\u0ceb", "\\u0cec", "\\u0ced", "\\u0cee", "\\u0cef">>,
      <<"\\u0d66", "\\u0d67", "\\u0d68", "\\u0d69", "\\u0d6a", "\\u0d6b", "\\u0d6c", "\\u0d6d", "\\u0d6e", "\\u0d6f">>,
      <<"\\u0de6", "\\u0de7", "\\u0de8", "\\u0de9", "\\u0dea", "\\u0deb", "\\u0dec", "\\u0ded", "\\u0dee", "\\u0def">>,
      <<"\\u0e50", "\\u0e51", "\\u0e52", "\\u0e53", "\\u0e54", "\\u0e55", "\\u0e56", "\\u0e57", "\\u0e58", "\\u0e59">>,
      <<"\\u0ed0", "\\u0ed1", "\\u0ed2", "\\u0ed3", "\\u0ed4", "\\u0ed5", "\\u0ed6", "\\u0ed7", "\\u0ed8", "\\u0ed9">>,
      <<"\\u0f20", "\\u0f21", "\\u0f22", "\\u0f23", "\\u0f24", "\\u0f25", "\\u0f26", "\\u0f27", "\\u0f28", "\\u0f29">>,
      <<"\\u1040", "\\u1041", "\\u1042", "\\u1043", "\\u1044", "\\u1045", "\\u1046", "\\u1047", "\\u1048", "\\u1049">>,
      <<"\\u1090", "\\u1091", "\\u1092", "\\u1093", "\\u1094", "\\u1095", "\\u1096", "\\u1097", "\\u1098", "\\u1099">>,
      <<"\\u17e0", "\\u17e1", "\\u17e2", "\\u17e3", "\\u17e4", "\\u17e5", "\\u17e6", "\\u17e7", "\\u17e8", "\\u17e9">>,
      <<"\\u1810", "\\u1811", "\\u1812", "\\u1813", "\\u1814", "\\u1815", "\\u1816", "\\u1817", "\\u1818", "\\u1819">>,
      <<"\\u1946", "\\u1947", "\\u1948", "\\u1949", "\\u194a", "\\u194b", "\\u194c", "\\u194d", "\\u194e", "\\u194f">>,
      <<"\\u19d0", "\\u19d1", "\\u19d2", "\\u19d3", "\\u19d4", "\\u19d5", "\\u19d6", "\\u19d7", "\\u19d8", "\\u19d9">>,
      <<"\\u1a80", "\\u1a81", "\\u1a82", "\\u1a83", "\\u1a84", "\\u1a85", "\\u1a86", "\\u1a87", "\\u1a88", "\\u1a89">>,
      <<"\\u1a90", "\\u1a91", "\\u1a92", "\\u1a93", "\\u1a94", "\\u1a95", "\\u1a96", "\\u1a97", "\\u1a98", "\\u1a99">>,
      <<"\\u1b50", "\\u1b51", "\\u1b52", "\\u1b53", "\\u1b54", "\\u1b55", "\\u1b56", "\\u1b57", "\\u1b58", "\\u1b59">>,
      <<"\\u1bb0", "\\u1bb1", "\\u1bb2", "\\u1bb3", "\\u1bb4", "\\u1bb5", "\\u1bb6", "\\u1bb7", "\\u1bb8", "\\u1bb9">>,
      <<"\\u1c40", "\\u1c41", "\\u1c42", "\\u1c43", "\\u1c44", "\\u1c45", "\\u1c46", "\\u1c47", "\\u1c48", "\\u1c49">>,
      <<"\\u1c50", "\\u1c51", "\\u1c52", "\\u1c53", "\\u1c54", "\\u1c55", "\\u1c56", "\\u1c57", "\\u1c58", "\\u1c59">>,
      <<"\\ua620", "\\ua621", "\\ua622", "\\ua623", "\\ua624", "\\ua625", "\\ua626", "\\ua627", "\\ua628", "\\ua629">>,
      <<"\\ua8d0", "\\ua8d1", "\\ua8d2", "\\ua8d3", "\\ua8d4", "\\ua8d5", "\\ua8d6", "\\ua8d7", "\\ua8d8", "\\ua8d9">>,
      <<"\\ua900", "\\ua901", "\\ua902", "\\ua903", "\\ua904", "\\ua905", "\\ua906", "\\ua907", "\\ua908", "\\ua909">>,
      <<"\\ua9d0", "\\ua9d1", "\\ua9d2", "\\ua9d3", "\\ua9d4", "\\ua9d5", "\\ua9d6", "\\ua9d7", "\\ua9d8", "\\ua9d9">>,
      <<"\\ua9f0", "\\ua9f1", "\\ua9f2", "\\ua9f3", "\\ua9f4", "\\ua9f5", "\\ua9f6", "\\ua9f7", "\\ua9f8", "\\ua9f9">>,
      <<"\\uaa50", "\\uaa51", "\\uaa52", "\\uaa53", "\\uaa54", "\\uaa55", "\\uaa56", "\\uaa57", "\\uaa58", "\\uaa59">>,
      <<"\\uabf0", "\\uabf1", "\\uabf2", "\\uabf3", "\\uabf4", "\\uabf5", "\\uabf6", "\\uabf7", "\\uabf8", "\\uabf9">>,
      <<"\\uff10", "\\uff11", "\\uff12", "\\uff13", "\\uff14", "\\uff15", "\\uff16", "\\uff17", "\\uff18", "\\uff19">>,
      <<"\\U000104a0", "\\U000104a1", "\\U000104a2", "\\U000104a3", "\\U000104a4", "\\U000104a5", "\\U000104a6", "\\U000104a7", "\\U000104a8", "\\U000104a9">>,
      <<"\\U00010d30", "\\U00010d31", "\\U00010d32", "\\U00010d33", "\\U00010d34", "\\U00010d35", "\\U00010d36", "\\U00010d37", "\\U00010d38", "\\U00010d39">>,
      <<"\\U00011066", "\\U00011067", "\\U00011068", "\\U00011069", "\\U0001106a", "\\U0001106b", "\\U0001106c", "\\U0001106d", "\\U0001106e", "\\U0001106f">>,
      <<"\\U000110f0", "\\U000110f1", "\\U000110f2", "\\U000110f3", "\\U000110f4", "\\U000110f5", "\\U000110f6", "\\U000110f7", "\\U000110f8", "\\U000110f9">>,
      <<"\\U00011136", "\\U00011137", "\\U00011138", "\\U00011139", "\\U0001113a", "\\U0001113b", "\\U0001113c", "\\U0001113d", "\\U0001113e", "\\U0001113f">>,
      <<"\\U000111d0", "\\U000111d1", "\\U000111d2", "\\U000111d3", "\\U000111d4", "\\U000111d5", "\\U000111d6", "\\U000111d7", "\\U000111d8", "\\U000111d9">>,
      <<"\\U000112f0", "\\U000112f1", "\\U000112f2", "\\U000112f3", "\\U000112f4", "\\U000112f5", "\\U000112f6", "\\U000112f7", "\\U000112f8", "\\U000112f9">>,
      <<"\\U00011450", "\\U00011451", "\\U00011452", "\\U00011453", "\\U00011454", "\\U00011455", "\\U00011456", "\\U00011457", "\\U00011458", "\\U00011459">>,
      <<"\\U000114d0", "\\U000114d1", "\\U000114d2", "\\U000114d3", "\\U000114d4", "\\U000114d5", "\\U000114d6", "\\U000114d7", "\\U000114d8", "\\U000114d9">>,
      <<"\\U00011650", "\\U00011651", "\\U00011652", "\\U00011653", "\\U00011654", "\\U00011655", "\\U00011656", "\\U00011657", "\\U00011658", "\\U00011659">>,
      <<"\\U000116c0", "\\U000116c1", "\\U000116c2", "\\U000116c3", "\\U000116c4", "\\U000116c5", "\\U000116c6", "\\U000116c7", "\\U000116c8", "\\U000116c9">>,
      <<"\\U00011730", "\\U00011731", "\\U00011732", "\\U00011733", "\\U00011734", "\\U00011735", "\\U00011736", "\\U00011737", "\\U00011738", "\\U00011739">>,
      <<"\\U000118e0", "\\U000118e1", "\\U000118e2", "\\U000118e3", "\\U000118e4", "\\U000118e5", "\\U000118e6", "\\U000118e7", "\\U000118e8", "\\U000118e9">>,
      <<"\\U00011950", "\\U00011951", "\\U00011952", "\\U00011953", "\\U00011954", "\\U00011955", "\\U00011956", "\\U00011957", "\\U00011958", "\\U00011959">>,
      <<"\\U00011c50", "\\U00011c51", "\\U00011c52", "\\U00011c53", "\\U00011c54", "\\U00011c55", "\\U00011c56", "\\U00011c57", "\\U00011c58", "\\U00011c59">>,
      <<"\\U00011d50", "\\U00011d51", "\\U00011d52", "\\U00011d53", "\\U00011d54", "\\U00011d55", "\\U00011d56", "\\U00011d57", "\\U00011d58", "\\U00011d59">>,
      <<"\\U00011da0", "\\U00011da1", "\\U00011da2", "\\U00011da3", "\\U00011da4", "\\U00011da5", "\\U00011da6", "\\U00011da7", "\\U00011da8", "\\U00011da9">>,
      <<"\\U00016a60", "\\U00016a61", "\\U00016a62", "\\U00016a63", "\\U00016a64", "\\U00016a65", "\\U00016a66", "\\U00016a67", "\\U00016a68", "\\U00016a69">>,
      <<"\\U00016ac0", "\\U00016ac1", "\\U00016ac2", "\\U00016ac3", "\\U00016ac4", "\\U00016ac5", "\\U00016ac6", "\\U00016ac7", "\\U00016ac8", "\\U00016ac9">>,
      <<"\\U00016b50", "\\U00016b51", "\\U00016b52", "\\U00016b53", "\\U00016b54", "\\U00016b55", "\\U00016b56", "\\U00016b57", "\\U00016b58", "\\U00016b59">>,
      <<"\\U0001d7ce", "\\U0001d7cf", "\\U0001d7d0", "\\U0001d7d1", "\\U0001d7d2", "\\U0001d7d3", "\\U0001d7d4", "\\U0001d7d5", "\\U0001d7d6", "\\U0001d7d7">>,
      <<"\\U0001d7d8", "\\U0001d7d9", "\\U0001d7da", "\\U0001d7db", "\\U0001d7dc", "\\U0001d7dd", "\\U0001d7de", "\\U0001d7df", "\\U0001d7e0", "\\U0001d7e1">>,
      <<"\\U0001d7e2", "\\U0001d7e3", "\\U0001d7e4", "\\U0001d7e5", "\\U0001d7e6", "\\U0001d7e7", "\\U0001d7e8", "\\U0001d7e9", "\\U0001d7ea", "\\U0001d7eb">>,
      <<"\\U0001d7ec", "\\U0001d7ed", "\\U0001d7ee", "\\U0001d7ef", "\\U0001d7f0", "\\U0001d7f1", "\\U0001d7f2", "\\U0001d7f3", "\\U0001d7f4", "\\U0001d7f5">>,
      <<"\\U0001d7f6", "\\U0001d7f7", "\\U0001d7f8", "\\U0001d7f9", "\\U0001d7fa", "\\U0001d7fb", "\\U0001d7fc", "\\U0001d7fd", "\\U0001d7fe", "\\U0001d7ff">>,
      <<"\\U0001e140", "\\U0001e141", "\\U0001e142", "\\U0001e143", "\\U0001e144", "\\U0001e145", "\\U0001e146", "\\U0001e147", "\\U0001e148", "\\U0001e149">>,
      <<"\\U0001e2f0", "\\U0001e2f1", "\\U0001e2f2", "\\U0001e2f3", "\\U0001e2f4", "\\U0001e2f5", "\\U0001e2f6", "\\U0001e2f7", "\\U0001e2f8", "\\U0001e2f9">>,
      <<"\\U0001e950", "\\U0001e951", "\\U0001e952", "\\U0001e953", "\\U0001e954", "\\U0001e955", "\\U0001e956", "\\U0001e957", "\\U0001e958", "\\U0001e959">>,
      <<"\\U0001fbf0", "\\U0001fbf1", "\\U0001fbf2", "\\U0001fbf3", "\\U0001fbf4", "\\U0001fbf5", "\\U0001fbf6", "\\U0001fbf7", "\\U0001fbf8", "\\U0001fbf9">>
    >>

\* \d of a pattern over str: every decimal digit of Unicode.
DecimalChars ==
    { DigitBlocks[b][i] : b \in 1 .. Len(DigitBlocks), i \in 1 .. 10 }

\* int() of one digit.
DigitVal(c) ==
    (CHOOSE i \in 1 .. 10 : \E b \in 1 .. Len(DigitBlocks) : DigitBlocks[b][i] = c) - 1

RECURSIVE Num(_)
\* int() of a string of digits.
Num(str) ==
    IF str = <<>> THEN 0
    ELSE 10 * Num(SubSeq(str, 1, Len(str) - 1)) + DigitVal(str[Len(str)])

AllDigits(str) == \A i \in 1 .. Len(str) : str[i] \in DigitChars

AllDecimal(str) == \A i \in 1 .. Len(str) : str[i] \in DecimalChars

\* The month names of %b, which strptime matches without regard to case.
MonthAbbr ==
    << <<"j", "a", "n">>, <<"f", "e", "b">>, <<"m", "a", "r">>, <<"a", "p", "r">>,
       <<"m", "a", "y">>, <<"j", "u", "n">>, <<"j", "u", "l">>, <<"a", "u", "g">>,
       <<"s", "e", "p">>, <<"o", "c", "t">>, <<"n", "o", "v">>, <<"d", "e", "c">> >>

\* Every character c with c.lower() # c and the string c.lower().
LowerPairs ==
    <<
      <<"A", <<"a">>>>, <<"B", <<"b">>>>, <<"C", <<"c">>>>, <<"D", <<"d">>>>, <<"E", <<"e">>>>,
      <<"F", <<"f">>>>, <<"G", <<"g">>>>, <<"H", <<"h">>>>, <<"I", <<"i">>>>, <<"J", <<"j">>>>,
      <<"K", <<"k">>>>, <<"L", <<"l">>>>, <<"M", <<"m">>>>, <<"N", <<"n">>>>, <<"O", <<"o">>>>,
      <<"P", <<"p">>>>, <<"Q", <<"q">>>>, <<"R", <<"r">>>>, <<"S", <<"s">>>>, <<"T", <<"t">>>>,
      <<"U", <<"u">>>>, <<"V", <<"v">>>>, <<"W", <<"w">>>>, <<"X", <<"x">>>>, <<"Y", <<"y">>>>,
      <<"Z", <<"z">>>>, <<"\\xc0", <<"\\xe0">>>>, <<"\\xc1", <<"\\xe1">>>>,
      <<"\\xc2", <<"\\xe2">>>>, <<"\\xc3", <<"\\xe3">>>>, <<"\\xc4", <<"\\xe4">>>>,
      <<"\\xc5", <<"\\xe5">>>>, <<"\\xc6", <<"\\xe6">>>>, <<"\\xc7", <<"\\xe7">>>>,
      <<"\\xc8", <<"\\xe8">>>>, <<"\\xc9", <<"\\xe9">>>>, <<"\\xca", <<"\\xea">>>>,
      <<"\\xcb", <<"\\xeb">>>>, <<"\\xcc", <<"\\xec">>>>, <<"\\xcd", <<"\\xed">>>>,
      <<"\\xce", <<"\\xee">>>>, <<"\\xcf", <<"\\xef">>>>, <<"\\xd0", <<"\\xf0">>>>,
      <<"\\xd1", <<"\\xf1">>>>, <<"\\xd2", <<"\\xf2">>>>, <<"\\xd3", <<"\\xf3">>>>,
      <<"\\xd4", <<"\\xf4">>>>, <<"\\xd5", <<"\\xf5">>>>, <<"\\xd6", <<"\\xf6">>>>,
      <<"\\xd8", <<"\\xf8">>>>, <<"\\xd9", <<"\\xf9">>>>, <<"\\xda", <<"\\xfa">>>>,
      <<"\\xdb", <<"\\xfb">>>>, <<"\\xdc", <<"\\xfc">>>>, <<"\\xdd", <<"\\xfd">>>>,
      <<"\\xde", <<"\\xfe">>>>, <<"\\u0100", <<"\\u0101">>>>, <<"\\u0102", <<"\\u0103">>>>,
      <<"\\u0104", <<"\\u0105">>>>, <<"\\u0106", <<"\\u0107">>>>, <<"\\u0108", <<"\\u0109">>>>,
      <<"\\u010a", <<"\\u010b">>>>, <<"\\u010c", <<"\\u010d">>>>, <<"\\u010e", <<"\\u010f">>>>,
      <<"\\u0110", <<"\\u0111">>>>, <<"\\u0112", <<"\\u0113">>>>, <<"\\u0114", <<"\\u0115">>>>,
      <<"\\u0116", <<"\\u0117">>>>, <<"\\u0118", <<"\\u0119">>>>, <<"\\u011a", <<"\\u011b">>>>,
      <<"\\u011c", <<"\\u011d">>>>, <<"\\u011e", <<"\\u011f">>>>, <<"\\u0120", <<"\\u0121">>>>,
      <<"\\u0122", <<"\\u0123">>>>, <<"\\u0124", <<"\\u0125">>>>, <<"\\u0126", <<"\\u0127">>>>,
      <<"\\u0128", <<"\\u0129">>>>, <<"\\u012a", <<"\\u012b">>>>, <<"\\u012c", <<"\\u012d">>>>,
      <<"\\u012e", <<"\\u012f">>>>, <<"\\u0130", <<"i", "\\u0307">>>>,
      <<"\\u0132", <<"\\u0133">>>>, <<"\\u0134", <<"\\u0135">>>>, <<"\\u0136", <<"\\u0137">>>>,
      <<"\\u0139", <<"\\u013a">>>>, <<"\\u013b", <<"\\u013c">>>>, <<"\\u013d", <<"\\u013e">>>>,
      <<"\\u013f", <<"\\u0140">>>>, <<"\\u0141", <<"\\u0142">>>>, <<"\\u0143", <<"\\u0144">>>>,
      <<"\\u0145", <<"\\u0146">>>>, <<"\\u0147", <<"\\u0148">>>>, <<"\\u014a", <<"\\u014b">>>>,
      <<"\\u014c", <<"\\u014d">>>>, <<"\\u014e", <<"\\u014f">>>>, <<"\\u0150", <<"\\u0151">>>>,
      <<"\\u0152", <<"\\u0153">>>>, <<"\\u0154", <<"\\u0155">>>>, <<"\\u0156", <<"\\u0157">>>>,
      <<"\\u0158", <<"\\u0159">>>>, <<"\\u015a", <<"\\u015b">>>>, <<"\\u015c", <<"\\u015d">>>>,
      <<"\\u015e", <<"\\u015f">>>>, <<"\\u0160", <<"\\u0161">>>>, <<"\\u0162", <<"\\u0163">>>>,
      <<"\\u0164", <<"\\u0165">>>>, <<"\\u0166", <<"\\u0167">>>>, <<"\\u0168", <<"\\u0169">>>>,
      <<"\\u016a", <<"\\u016b">>>>, <<"\\u016c", <<"\\u016d">>>>, <<"\\u016e", <<"\\u016f">>>>,
      <<"\\u0170", <<"\\u0171">>>>, <<"\\u0172", <<"\\u0173">>>>, <<"\\u0174", <<"\\u0175">>>>,
      <<"\\u0176", <<"\\u0177">>>>, <<"\\u0178", <<"\\xff">>>>, <<"\\u0179", <<"\\u017a">>>>,
      <<"\\u017b", <<"\\u017c">>>>, <<"\\u017d", <<"\\u017e">>>>, <<"\\u0181", <<"\\u0253">>>>,
      <<"\\u0182", <<"\\u0183">>>>, <<"\\u0184", <<"\\u0185">>>>, <<"\\u0186", <<"\\u0254">>>>,
      <<"\\u0187", <<"\\u0188">>>>, <<"\\u0189", <<"\\u0256">>>>, <<"\\u018a", <<"\\u0257">>>>,
      <<"\\u018b", <<"\\u018c">>>>, <<"\\u018e", <<"\\u01dd">>>>, <<"\\u018f", <<"\\u0259">>>>,
      <<"\\u0190", <<"\\u025b">>>>, <<"\\u0191", <<"\\u0192">>>>, <<"\\u0193", <<"\\u0260">>>>,
      <<"\\u0194", <<"\\u0263">>>>, <<"\\u0196", <<"\\u0269">>>>, <<"\\u0197", <<"\\u0268">>>>,
      <<"\\u0198", <<"\\u0199">>>>, <<"\\u019c", <<"\\u026f">>>>, <<"\\u019d", <<"\\u0272">>>>,
      <<"\\u019f", <<"\\u0275">>>>, <<"\\u01a0", <<"\\u01a1">>>>, <<"\\u01a2", <<"\\u01a3">>>>,
      <<"\\u01a4", <<"\\u01a5">>>>, <<"\\u01a6", <<"\\u0280">>>>, <<"\\u01a7", <<"\\u01a8">>>>,
      <<"\\u01a9", <<"\\u0283">>>>, <<"\\u01ac", <<"\\u01ad">>>>, <<"\\u01ae", <<"\\u0288">>>>,
      <<"\\u01af", <<"\\u01b0">>>>, <<"\\u01b1", <<"\\u028a">>>>, <<"\\u01b2", <<"\\u028b">>>>,
      <<"\\u01b3", <<"\\u01b4">>>>, <<"\\u01b5", <<"\\u01b6">>>>, <<"\\u01b7", <<"\\u0292">>>>,
      <<"\\u01b8", <<"\\u01b9">>>>, <<"\\u01bc", <<"\\u01bd">>>>, <<"\\u01c4", <<"\\u01c6">>>>,
      <<"\\u01c5", <<"\\u01c6">>>>, <<"\\u01c7", <<"\\u01c9">>>>, <<"\\u01c8", <<"\\u01c9">>>>,
      <<"\\u01ca", <<"\\u01cc">>>>, <<"\\u01cb", <<"\\u01cc">>>>, <<"\\u01cd", <<"\\u01ce">>>>,
      <<"\\u01cf", <<"\\u01d0">>>>, <<"\\u01d1", <<"\\u01d2">>>>, <<"\\u01d3", <<"\\u01d4">>>>,
      <<"\\u01d5", <<"\\u01d6">>>>, <<"\\u01d7", <<"\\u01d8">>>>, <<"\\u01d9", <<"\\u01da">>>>,
      <<"\\u01db", <<"\\u01dc">>>>, <<"\\u01de", <<"\\u01df">>>>, <<"\\u01e0", <<"\\u01e1">>>>,
      <<"\\u01e2", <<"\\u01e3">>>>, <<"\\u01e4", <<"\\u01e5">>>>, <<"\\u01e6", <<"\\u01e7">>>>,
      <<"\\u01e8", <<"\\u01e9">>>>, <<"\\u01ea", <<"\\u01eb">>>>, <<"\\u01ec", <<"\\u01ed">>>>,
      <<"\\u01ee", <<"\\u01ef">>>>, <<"\\u01f1", <<"\\u01f3">>>>, <<"\\u01f2", <<"\\u01f3">>>>,
      <<"\\u01f4", <<"\\u01f5">>>>, <<"\\u01f6", <<"\\u0195">>>>, <<"\\u01f7", <<"\\u01bf">>>>,
      <<"\\u01f8", <<"\\u01f9">>>>, <<"\\u01fa", <<"\\u01fb">>>>, <<"\\u01fc", <<"\\u01fd">>>>,
      <<"\\u01fe", <<"\\u01ff">>>>, <<"\\u0200", <<"\\u0201">>>>, <<"\\u0202", <<"\\u0203">>>>,
      <<"\\u0204", <<"\\u0205">>>>, <<"\\u0206", <<"\\u0207">>>>, <<"\\u0208", <<"\\u0209">>>>,
      <<"\\u020a", <<"\\u020b">>>>, <<"\\u020c", <<"\\u020d">>>>, <<"\\u020e", <<"\\u020f">>>>,
      <<"\\u0210", <<"\\u0211">>>>, <<"\\u0212", <<"\\u0213">>>>, <<"\\u0214", <<"\\u0215">>>>,
      <<"\\u0216", <<"\\u0217">>>>, <<"\\u0218", <<"\\u0219">>>>, <<"\\u021a", <<"\\u021b">>>>,
      <<"\\u021c", <<"\\u021d">>>>, <<"\\u021e", <<"\\u021f">>>>, <<"\\u0220", <<"\\u019e">>>>,
      <<"\\u0222", <<"\\u0223">>>>, <<"\\u0224", <<"\\u0225">>>>, <<"\\u0226", <<"\\u0227">>>>,
      <<"\\u0228", <<"\\u0229">>>>, <<"\\u022a", <<"\\u022b">>>>, <<"\\u022c", <<"\\u022d">>>>,
      <<"\\u022e", <<"\\u022f">>>>, <<"\\u0230", <<"\\u0231">>>>, <<"\\u0232", <<"\\u0233">>>>,
      <<"\\u023a", <<"\\u2c65">>>>, <<"\\u023b", <<"\\u023c">>>>, <<"\\u023d", <<"\\u019a">>>>,
      <<"\\u023e", <<"\\u2c66">>>>, <<"\\u0241", <<"\\u0242">>>>, <<"\\u0243", <<"\\u0180">>>>,
      <<"\\u0244", <<"\\u0289">>>>, <<"\\u0245", <<"\\u028c">>>>, <<"\\u0246", <<"\\u0247">>>>,
      <<"\\u0248", <<"\\u0249">>>>, <<"\\u024a", <<"\\u024b">>>>, <<"\\u024c", <<"\\u024d">>>>,
      <<"\\u024e", <<"\\u024f">>>>, <<"\\u0370", <<"\\u0371">>>>, <<"\\u0372", <<"\\u0373">>>>,
      <<"\\u0376", <<"\\u0377">>>>, <<"\\u037f", <<"\\u03f3">>>>, <<"\\u0386", <<"\\u03ac">>>>,
      <<"\\u0388", <<"\\u03ad">>>>, <<"\\u0389", <<"\\u03ae">>>>, <<"\\u038a", <<"\\u03af">>>>,
      <<"\\u038c", <<"\\u03cc">>>>, <<"\\u038e", <<"\\u03cd">>>>, <<"\\u038f", <<"\\u03ce">>>>,
      <<"\\u0391", <<"\\u03b1">>>>, <<"\\u0392", <<"\\u03b2">>>>, <<"\\u0393", <<"\\u03b3">>>>,
      <<"\\u0394", <<"\\u03b4">>>>, <<"\\u0395", <<"\\u03b5">>>>, <<"\\u0396", <<"\\u03b6">>>>,
      <<"\\u0397", <<"\\u03b7">>>>, <<"\\u0398", <<"\\u03b8">>>>, <<"\\u0399", <<"\\u03b9">>>>,
      <<"\\u039a", <<"\\u03ba">>>>, <<"\\u039b", <<"\\u03bb">>>>, <<"\\u039c", <<"\\u03bc">>>>,
      <<"\\u039d", <<"\\u03bd">>>>, <<"\\u039e", <<"\\u03be">>>>, <<"\\u039f", <<"\\u03bf">>>>,
      <<"\\u03a0", <<"\\u03c0">>>>, <<"\\u03a1", <<"\\u03c1">>>>, <<"\\u03a3", <<"\\u03c3">>>>,
      <<"\\u03a4", <<"\\u03c4">>>>, <<"\\u03a5", <<"\\u03c5">>>>, <<"\\u03a6", <<"\\u03c6">>>>,
      <<"\\u03a7", <<"\\u03c7">>>>, <<"\\u03a8", <<"\\u03c8">>>>, <<"\\u03a9", <<"\\u03c9">>>>,
      <<"\\u03aa", <<"\\u03ca">>>>, <<"\\u03ab", <<"\\u03cb">>>>, <<"\\u03cf", <<"\\u03d7">>>>,
      <<"\\u03d8", <<"\\u03d9">>>>, <<"\\u03da", <<"\\u03db">>>>, <<"\\u03dc", <<"\\u03dd">>>>,
      <<"\\u03de", <<"\\u03df">>>>, <<"\\u03e0", <<"\\u03e1">>>>, <<"\\u03e2", <<"\\u03e3">>>>,
      <<"\\u03e4", <<"\\u03e5">>>>, <<"\\u03e6", <<"\\u03e7">>>>, <<"\\u03e8", <<"\\u03e9">>>>,
      <<"\\u03ea", <<"\\u03eb">>>>, <<"\\u03ec", <<"\\u03ed">>>>, <<"\\u03ee", <<"\\u03ef">>>>,
      <<"\\u03f4", <<"\\u03b8">>>>, <<"\\u03f7", <<"\\u03f8">>>>, <<"\\u03f9", <<"\\u03f2">>>>,
      <<"\\u03fa", <<"\\u03fb">>>>, <<"\\u03fd", <<"\\u037b">>>>, <<"\\u03fe", <<"\\u037c">>>>,
      <<"\\u03ff", <<"\\u037d">>>>, <<"\\u0400", <<"\\u0450">>>>, <<"\\u0401", <<"\\u0451">>>>,
      <<"\\u0402", <<"\\u0452">>>>, <<"\\u0403", <<"\\u0453">>>>, <<"\\u0404", <<"\\u0454">>>>,
      <<"\\u0405", <<"\\u0455">>>>, <<"\\u0406", <<"\\u0456">>>>, <<"\\u0407", <<"\\u0457">>>>,
      <<"\\u0408", <<"\\u0458">>>>, <<"\\u0409", <<"\\u0459">>>>, <<"\\u040a", <<"\\u045a">>>>,
      <<"\\u040b", <<"\\u045b">>>>, <<"\\u040c", <<"\\u045c">>>>, <<"\\u040d", <<"\\u045d">>>>,
      <<"\\u040e", <<"\\u045e">>>>, <<"\\u040f", <<"\\u045f">>>>, <<"\\u0410", <<"\\u0430">>>>,
      <<"\\u0411", <<"\\u0431">>>>, <<"\\u0412", <<"\\u0432">>>>, <<"\\u0413", <<"\\u0433">>>>,
      <<"\\u0414", <<"\\u0434">>>>, <<"\\u0415", <<"\\u0435">>>>, <<"\\u0416", <<"\\u0436">>>>,
      <<"\\u0417", <<"\\u0437">>>>, <<"\\u0418", <<"\\u0438">>>>, <<"\\u0419", <<"\\u0439">>>>,
      <<"\\u041a", <<"\\u043a">>>>, <<"\\u041b", <<"\\u043b">>>>, <<"\\u041c", <<"\\u043c">>>>,
      <<"\\u041d", <<"\\u043d">>>>, <<"\\u041e", <<"\\u043e">>>>, <<"\\u041f", <<"\\u043f">>>>,
      <<"\\u0420", <<"\\u0440">>>>, <<"\\u0421", <<"\\u0441">>>>, <<"\\u0422", <<"\\u0442">>>>,
      <<"\\u0423", <<"\\u0443">>>>, <<"\\u0424", <<"\\u0444">>>>, <<"\\u0425", <<"\\u0445">>>>,
      <<"\\u0426", <<"\\u0446">>>>, <<"\\u0427", <<"\\u0447">>>>, <<"\\u0428", <<"\\u0448">>>>,
      <<"\\u0429", <<"\\u0449">>>>, <<"\\u042a", <<"\\u044a">>>>, <<"\\u042b", <<"\\u044b">>>>,
      <<"\\u042c", <<"\\u044c">>>>, <<"\\u042d", <<"\\u044d">>>>, <<"\\u042e", <<"\\u044e">>>>,
      <<"\\u042f", <<"\\u044f">>>>, <<"\\u0460", <<"\\u0461">>>>, <<"\\u0462", <<"\\u0463">>>>,
      <<"\\u0464", <<"\\u0465">>>>, <<"\\u0466", <<"\\u0467">>>>, <<"\\u0468", <<"\\u0469">>>>,
      <<"\\u046a", <<"\\u046b">>>>, <<"\\u046c", <<"\\u046d">>>>, <<"\\u046e", <<"\\u046f">>>>,
      <<"\\u0470", <<"\\u0471">>>>, <<"\\u0472", <<"\\u0473">>>>, <<"\\u0474", <<"\\u0475">>>>,
      <<"\\u0476", <<"\\u0477">>>>, <<"\\u0478", <<"\\u0479">>>>, <<"\\u047a", <<"\\u047b">>>>,
      <<"\\u047c", <<"\\u047d">>>>, <<"\\u047e", <<"\\u047f">>>>, <<"\\u0480", <<"\\u0481">>>>,
      <<"\\u048a", <<"\\u048b">>>>, <<"\\u048c", <<"\\u048d">>>>, <<"\\u048e", <<"\\u048f">>>>,
      <<"\\u0490", <<"\\u0491">>>>, <<"\\u0492", <<"\\u0493">>>>, <<"\\u0494", <<"\\u0495">>>>,
      <<"\\u0496", <<"\\u0497">>>>, <<"\\u0498", <<"\\u0499">>>>, <<"\\u049a", <<"\\u049b">>>>,
      <<"\\u049c", <<"\\u049d">>>>, <<"\\u049e", <<"\\u049f">>>>, <<"\\u04a0", <<"\\u04a1">>>>,
      <<"\\u04a2", <<"\\u04a3">>>>, <<"\\u04a4", <<"\\u04a5">>>>, <<"\\u04a6", <<"\\u04a7">>>>,
      <<"\\u04a8", <<"\\u04a9">>>>, <<"\\u04aa", <<"\\u04ab">>>>, <<"\\u04ac", <<"\\u04ad">>>>,
      <<"\\u04ae", <<"\\u04af">>>>, <<"\\u04b0", <<"\\u04b1">>>>, <<"\\u04b2", <<"\\u04b3">>>>,
      <<"\\u04b4", <<"\\u04b5">>>>, <<"\\u04b6", <<"\\u04b7">>>>, <<"\\u04b8", <<"\\u04b9">>>>,
      <<"\\u04ba", <<"\\u04bb">>>>, <<"\\u04bc", <<"\\u04bd">>>>, <<"\\u04be", <<"\\u04bf">>>>,
      <<"\\u04c0", <<"\\u04cf">>>>, <<"\\u04c1", <<"\\u04c2">>>>, <<"\\u04c3", <<"\\u04c4">>>>,
      <<"\\u04c5", <<"\\u04c6">>>>, <<"\\u04c7", <<"\\u04c8">>>>, <<"\\u04c9", <<"\\u04ca">>>>,
      <<"\\u04cb", <<"\\u04cc">>>>, <<"\\u04cd", <<"\\u04ce">>>>, <<"\\u04d0", <<"\\u04d1">>>>,
      <<"\\u04d2", <<"\\u04d3">>>>, <<"\\u04d4", <<"\\u04d5">>>>, <<"\\u04d6", <<"\\u04d7">>>>,
      <<"\\u04d8", <<"\\u04d9">>>>, <<"\\u04da", <<"\\u04db">>>>, <<"\\u04dc", <<"\\u04dd">>>>,
      <<"\\u04de", <<"\\u04df">>>>, <<"\\u04e0", <<"\\u04e1">>>>, <<"\\u04e2", <<"\\u04e3">>>>,
      <<"\\u04e4", <<"\\u04e5">>>>, <<"\\u04e6", <<"\\u04e7">>>>, <<"\\u04e8", <<"\\u04e9">>>>,
      <<"\\u04ea", <<"\\u04eb">>>>, <<"\\u04ec", <<"\\u04ed">>>>, <<"\\u04ee", <<"\\u04ef">>>>,
      <<"\\u04f0", <<"\\u04f1">>>>, <<"\\u04f2", <<"\\u04f3">>>>, <<"\\u04f4", <<"\\u04f5">>>>,
      <<"\\u04f6", <<"\\u04f7">>>>, <<"\\u04f8", <<"\\u04f9">>>>, <<"\\u04fa", <<"\\u04fb">>>>,
      <<"\\u04fc", <<"\\u04fd">>>>, <<"\\u04fe", <<"\\u04ff">>>>, <<"\\u0500", <<"\\u0501">>>>,
      <<"\\u0502", <<"\\u0503">>>>, <<"\\u0504", <<"\\u0505">>>>, <<"\\u0506", <<"\\u0507">>>>,
      <<"\\u0508", <<"\\u0509">>>>, <<"\\u050a", <<"\\u050b">>>>, <<"\\u050c", <<"\\u050d">>>>,
      <<"\\u050e", <<"\\u050f">>>>, <<"\\u0510", <<"\\u0511">>>>, <<"\\u0512", <<"\\u0513">>>>,
      <<"\\u0514", <<"\\u0515">>>>, <<"\\u0516", <<"\\u0517">>>>, <<"\\u0518", <<"\\u0519">>>>,
      <<"\\u051a", <<"\\u051b">>>>, <<"\\u051c", <<"\\u051d">>>>, <<"\\u051e", <<"\\u051f">>>>,
      <<"\\u0520", <<"\\u0521">>>>, <<"\\u0522", <<"\\u0523">>>>, <<"\\u0524", <<"\\u0525">>>>,
      <<"\\u0526", <<"\\u0527">>>>, <<"\\u0528", <<"\\u0529">>>>, <<"\\u052a", <<"\\u052b">>>>,
      <<"\\u052c", <<"\\u052d">>>>, <<"\\u052e", <<"\\u052f">>>>, <<"\\u0531", <<"\\u0561">>>>,
      <<"\\u0532", <<"\\u0562">>>>, <<"\\u0533", <<"\\u0563">>>>, <<"\\u0534", <<"\\u0564">>>>,
      <<"\\u0535", <<"\\u0565">>>>, <<"\\u0536", <<"\\u0566">>>>, <<"\\u0537", <<"\\u0567">>>>,
      <<"\\u0538", <<"\\u0568">>>>, <<"\\u0539", <<"\\u0569">>>>, <<"\\u053a", <<"\\u056a">>>>,
      <<"\\u053b", <<"\\u056b">>>>, <<"\\u053c", <<"\\u056c">>>>, <<"\\u053d", <<"\\u056d">>>>,
      <<"\\u053e", <<"\\u056e">>>>, <<"\\u053f", <<"\\u056f">>>>, <<"\\u0540", <<"\\u0570">>>>,
      <<"\\u0541", <<"\\u0571">>>>, <<"\\u0542", <<"\\u0572">>>>, <<"\\u0543", <<"\\u0573">>>>,
      <<"\\u0544", <<"\\u0574">>>>, <<"\\u0545", <<"\\u0575">>>>, <<"\\u0546", <<"\\u0576">>>>,
      <<"\\u0547", <<"\\u0577">>>>, <<"\\u0548", <<"\\u0578">>>>, <<"\\u0549", <<"\\u0579">>>>,
      <<"\\u054a", <<"\\u057a">>>>, <<"\\u054b", <<"\\u057b">>>>, <<"\\u054c", <<"\\u057c">>>>,
      <<"\\u054d", <<"\\u057d">>>>, <<"\\u054e", <<"\\u057e">>>>, <<"\\u054f", <<"\\u057f">>>>,
      <<"\\u0550", <<"\\u0580">>>>, <<"\\u0551", <<"\\u0581">>>>, <<"\\u0552", <<"\\u0582">>>>,
      <<"\\u0553", <<"\\u0583">>>>, <<"\\u0554", <<"\\u0584">>>>, <<"\\u0555", <<"\\u0585">>>>,
      <<"\\u0556", <<"\\u0586">>>>, <<"\\u10a0", <<"\\u2d00">>>>, <<"\\u10a1", <<"\\u2d01">>>>,
      <<"\\u10a2", <<"\\u2d02">>>>, <<"\\u10a3", <<"\\u2d03">>>>, <<"\\u10a4", <<"\\u2d04">>>>,
      <<"\\u10a5", <<"\\u2d05">>>>, <<"\\u10a6", <<"\\u2d06">>>>, <<"\\u10a7", <<"\\u2d07">>>>,
      <<"\\u10a8", <<"\\u2d08">>>>, <<"\\u10a9", <<"\\u2d09">>>>, <<"\\u10aa", <<"\\u2d0a">>>>,
      <<"\\u10ab", <<"\\u2d0b">>>>, <<"\\u10ac", <<"\\u2d0c">>>>, <<"\\u10ad", <<"\\u2d0d">>>>,
      <<"\\u10ae", <<"\\u2d0e">>>>, <<"\\u10af", <<"\\u2d0f">>>>, <<"\\u10b0", <<"\\u2d10">>>>,
      <<"\\u10b1", <<"\\u2d11">>>>, <<"\\u10b2", <<"\\u2d12">>>>, <<"\\u10b3", <<"\\u2d13">>>>,
      <<"\\u10b4", <<"\\u2d14">>>>, <<"\\u10b5", <<"\\u2d15">>>>, <<"\\u10b6", <<"\\u2d16">>>>,
      <<"\\u10b7", <<"\\u2d17">>>>, <<"\\u10b8", <<"\\u2d18">>>>, <<"\\u10b9", <<"\\u2d19">>>>,
      <<"\\u10ba", <<"\\u2d1a">>>>, <<"\\u10bb", <<"\\u2d1b">>>>, <<"\\u10bc", <<"\\u2d1c">>>>,
      <<"\\u10bd", <<"\\u2d1d">>>>, <<"\\u10be", <<"\\u2d1e">>>>, <<"\\u10bf", <<"\\u2d1f">>>>,
      <<"\\u10c0", <<"\\u2d20">>>>, <<"\\u10c1", <<"\\u2d21">>>>, <<"\\u10c2", <<"\\u2d22">>>>,
      <<"\\u10c3", <<"\\u2d23">>>>, <<"\\u10c4", <<"\\u2d24">>>>, <<"\\u10c5", <<"\\u2d25">>>>,
      <<"\\u10c7", <<"\\u2d27">>>>, <<"\\u10cd", <<"\\u2d2d">>>>, <<"\\u13a0", <<"\\uab70">>>>,
      <<"\\u13a1", <<"\\uab71">>>>, <<"\\u13a2", <<"\\uab72">>>>, <<"\\u13a3", <<"\\uab73">>>>,
      <<"\\u13a4", <<"\\uab74">>>>, <<"\\u13a5", <<"\\uab75">>>>, <<"\\u13a6", <<"\\uab76">>>>,
      <<"\\u13a7", <<"\\uab77">>>>, <<"\\u13a8", <<"\\uab78">>>>, <<"\\u13a9", <<"\\uab79">>>>,
      <<"\\u13aa", <<"\\uab7a">>>>, <<"\\u13ab", <<"\\uab7b">>>>, <<"\\u13ac", <<"\\uab7c">>>>,
      <<"\\u13ad", <<"\\uab7d">>>>, <<"\\u13ae", <<"\\uab7e">>>>, <<"\\u13af", <<"\\uab7f">>>>,
      <<"\\u13b0", <<"\\uab80">>>>, <<"\\u13b1", <<"\\uab81">>>>, <<"\\u13b2", <<"\\uab82">>>>,
      <<"\\u13b3", <<"\\uab83">>>>, <<"\\u13b4", <<"\\uab84">>>>, <<"\\u13b5", <<"\\uab85">>>>,
      <<"\\u13b6", <<"\\uab86">>>>, <<"\\u13b7", <<"\\uab87">>>>, <<"\\u13b8", <<"\\uab88">>>>,
      <<"\\u13b9", <<"\\uab89">>>>, <<"\\u13ba", <<"\\uab8a">>>>, <<"\\u13bb", <<"\\uab8b">>>>,
      <<"\\u13bc", <<"\\uab8c">>>>, <<"\\u13bd", <<"\\uab8d">>>>, <<"\\u13be", <<"\\uab8e">>>>,
      <<"\\u13bf", <<"\\uab8f">>>>, <<"\\u13c0", <<"\\uab90">>>>, <<"\\u13c1", <<"\\uab91">>>>,
      <<"\\u13c2", <<"\\uab92">>>>, <<"\\u13c3", <<"\\uab93">>>>, <<"\\u13c4", <<"\\uab94">>>>,
      <<"\\u13c5", <<"\\uab95">>>>, <<"\\u13c6", <<"\\uab96">>>>, <<"\\u13c7", <<"\\uab97">>>>,
      <<"\\u13c8", <<"\\uab98">>>>, <<"\\u13c9", <<"\\uab99">>>>, <<"\\u13ca", <<"\\uab9a">>>>,
      <<"\\u13cb", <<"\\uab9b">>>>, <<"\\u13cc", <<"\\uab9c">>>>, <<"\\u13cd", <<"\\uab9d">>>>,
      <<"\\u13ce", <<"\\uab9e">>>>, <<"\\u13cf", <<"\\uab9f">>>>, <<"\\u13d0", <<"\\uaba0">>>>,
      <<"\\u13d1", <<"\\uaba1">>>>, <<"\\u13d2", <<"\\uaba2">>>>, <<"\\u13d3", <<"\\uaba3">>>>,
      <<"\\u13d4", <<"\\uaba4">>>>, <<"\\u13d5", <<"\\uaba5">>>>, <<"\\u13d6", <<"\\uaba6">>>>,
      <<"\\u13d7", <<"\\uaba7">>>>, <<"\\u13d8", <<"\\uaba8">>>>, <<"\\u13d9", <<"\\uaba9">>>>,
      <<"\\u13da", <<"\\uabaa">>>>, <<"\\u13db", <<"\\uabab">>>>, <<"\\u13dc", <<"\\uabac">>>>,
      <<"\\u13dd", <<"\\uabad">>>>, <<"\\u13de", <<"\\uabae">>>>, <<"\\u13df", <<"\\uabaf">>>>,
      <<"\\u13e0", <<"\\uabb0">>>>, <<"\\u13e1", <<"\\uabb1">>>>, <<"\\u13e2", <<"\\uabb2">>>>,
      <<"\\u13e3", <<"\\uabb3">>>>, <<"\\u13e4", <<"\\uabb4">>>>, <<"\\u13e5", <<"\\uabb5">>>>,
      <<"\\u13e6", <<"\\uabb6">>>>, <<"\\u13e7", <<"\\uabb7">>>>, <<"\\u13e8", <<"\\uabb8">>>>,
      <<"\\u13e9", <<"\\uabb9">>>>, <<"\\u13ea", <<"\\uabba">>>>, <<"\\u13eb", <<"\\uabbb">>>>,
      <<"\\u13ec", <<"\\uabbc">>>>, <<"\\u13ed", <<"\\uabbd">>>>, <<"\\u13ee", <<"\\uabbe">>>>,
      <<"\\u13ef", <<"\\uabbf">>>>, <<"\\u13f0", <<"\\u13f8">>>>, <<"\\u13f1", <<"\\u13f9">>>>,
      <<"\\u13f2", <<"\\u13fa">>>>, <<"\\u13f3", <<"\\u13fb">>>>, <<"\\u13f4", <<"\\u13fc">>>>,
      <<"\\u13f5", <<"\\u13fd">>>>, <<"\\u1c90", <<"\\u10d0">>>>, <<"\\u1c91", <<"\\u10d1">>>>,
      <<"\\u1c92", <<"\\u10d2">>>>, <<"\\u1c93", <<"\\u10d3">>>>, <<"\\u1c94", <<"\\u10d4">>>>,
      <<"\\u1c95", <<"\\u10d5">>>>, <<"\\u1c96", <<"\\u10d6">>>>, <<"\\u1c97", <<"\\u10d7">>>>,
      <<"\\u1c98", <<"\\u10d8">>>>, <<"\\u1c99", <<"\\u10d9">>>>, <<"\\u1c9a", <<"\\u10da">>>>,
      <<"\\u1c9b", <<"\\u10db">>>>, <<"\\u1c9c", <<"\\u10dc">>>>, <<"\\u1c9d", <<"\\u10dd">>>>,
      <<"\\u1c9e", <<"\\u10de">>>>, <<"\\u1c9f", <<"\\u10df">>>>, <<"\\u1ca0", <<"\\u10e0">>>>,
      <<"\\u1ca1", <<"\\u10e1">>>>, <<"\\u1ca2", <<"\\u10e2">>>>, <<"\\u1ca3", <<"\\u10e3">>>>,
      <<"\\u1ca4", <<"\\u10e4">>>>, <<"\\u1ca5", <<"\\u10e5">>>>, <<"\\u1ca6", <<"\\u10e6">>>>,
      <<"\\u1ca7", <<"\\u10e7">>>>, <<"\\u1ca8", <<"\\u10e8">>>>, <<"\\u1ca9", <<"\\u10e9">>>>,
      <<"\\u1caa", <<"\\u10ea">>>>, <<"\\u1cab", <<"\\u10eb">>>>, <<"\\u1cac", <<"\\u10ec">>>>,
      <<"\\u1cad", <<"\\u10ed">>>>, <<"\\u1cae", <<"\\u10ee">>>>, <<"\\u1caf", <<"\\u10ef">>>>,
      <<"\\u1cb0", <<"\\u10f0">>>>, <<"\\u1cb1", <<"\\u10f1">>>>, <<"\\u1cb2", <<"\\u10f2">>>>,
      <<"\\u1cb3", <<"\\u10f3">>>>, <<"\\u1cb4", <<"\\u10f4">>>>, <<"\\u1cb5", <<"\\u10f5">>>>,
      <<"\\u1cb6", <<"\\u10f6">>>>, <<"\\u1cb7", <<"\\u10f7">>>>, <<"\\u1cb8", <<"\\u10f8">>>>,
      <<"\\u1cb9", <<"\\u10f9">>>>, <<"\\u1cba", <<"\\u10fa">>>>, <<"\\u1cbd", <<"\\u10fd">>>>,
      <<"\\u1cbe", <<"\\u10fe">>>>, <<"\\u1cbf", <<"\\u10ff">>>>, <<"\\u1e00", <<"\\u1e01">>>>,
      <<"\\u1e02", <<"\\u1e03">>>>, <<"\\u1e04", <<"\\u1e05">>>>, <<"\\u1e06", <<"\\u1e07">>>>,
      <<"\\u1e08", <<"\\u1e09">>>>, <<"\\u1e0a", <<"\\u1e0b">>>>, <<"\\u1e0c", <<"\\u1e0d">>>>,
      <<"\\u1e0e", <<"\\u1e0f">>>>, <<"\\u1e10", <<"\\u1e11">>>>, <<"\\u1e12", <<"\\u1e13">>>>,
      <<"\\u1e14", <<"\\u1e15">>>>, <<"\\u1e16", <<"\\u1e17">>>>, <<"\\u1e18", <<"\\u1e19">>>>,
      <<"\\u1e1a", <<"\\u1e1b">>>>, <<"\\u1e1c", <<"\\u1e1d">>>>, <<"\\u1e1e", <<"\\u1e1f">>>>,
      <<"\\u1e20", <<"\\u1e21">>>>, <<"\\u1e22", <<"\\u1e23">>>>, <<"\\u1e24", <<"\\u1e25">>>>,
      <<"\\u1e26", <<"\\u1e27">>>>, <<"\\u1e28", <<"\\u1e29">>>>, <<"\\u1e2a", <<"\\u1e2b">>>>,
      <<"\\u1e2c", <<"\\u1e2d">>>>, <<"\\u1e2e", <<"\\u1e2f">>>>, <<"\\u1e30", <<"\\u1e31">>>>,
      <<"\\u1e32", <<"\\u1e33">>>>, <<"\\u1e34", <<"\\u1e35">>>>, <<"\\u1e36", <<"\\u1e37">>>>,
      <<"\\u1e38", <<"\\u1e39">>>>, <<"\\u1e3a", <<"\\u1e3b">>>>, <<"\\u1e3c", <<"\\u1e3d">>>>,
      <<"\\u1e3e", <<"\\u1e3f">>>>, <<"\\u1e40", <<"\\u1e41">>>>, <<"\\u1e42", <<"\\u1e43">>>>,
      <<"\\u1e44", <<"\\u1e45">>>>, <<"\\u1e46", <<"\\u1e47">>>>, <<"\\u1e48", <<"\\u1e49">>>>,
      <<"\\u1e4a", <<"\\u1e4b">>>>, <<"\\u1e4c", <<"\\u1e4d">>>>, <<"\\u1e4e", <<"\\u1e4f">>>>,
      <<"\\u1e50", <<"\\u1e51">>>>, <<"\\u1e52", <<"\\u1e53">>>>, <<"\\u1e54", <<"\\u1e55">>>>,
      <<"\\u1e56", <<"\\u1e57">>>>, <<"\\u1e58", <<"\\u1e59">>>>, <<"\\u1e5a", <<"\\u1e5b">>>>,
      <<"\\u1e5c", <<"\\u1e5d">>>>, <<"\\u1e5e", <<"\\u1e5f">>>>, <<"\\u1e60", <<"\\u1e61">>>>,
      <<"\\u1e62", <<"\\u1e63">>>>, <<"\\u1e64", <<"\\u1e65">>>>, <<"\\u1e66", <<"\\u1e67">>>>,
      <<"\\u1e68", <<"\\u1e69">>>>, <<"\\u1e6a", <<"\\u1e6b">>>>, <<"\\u1e6c", <<"\\u1e6d">>>>,
      <<"\\u1e6e", <<"\\u1e6f">>>>, <<"\\u1e70", <<"\\u1e71">>>>, <<"\\u1e72", <<"\\u1e73">>>>,
      <<"\\u1e74", <<"\\u1e75">>>>, <<"\\u1e76", <<"\\u1e77">>>>, <<"\\u1e78", <<"\\u1e79">>>>,
      <<"\\u1e7a", <<"\\u1e7b">>>>, <<"\\u1e7c", <<"\\u1e7d">>>>, <<"\\u1e7e", <<"\\u1e7f">>>>,
      <<"\\u1e80", <<"\\u1e81">>>>, <<"\\u1e82", <<"\\u1e83">>>>, <<"\\u1e84", <<"\\u1e85">>>>,
      <<"\\u1e86", <<"\\u1e87">>>>, <<"\\u1e88", <<"\\u1e89">>>>, <<"\\u1e8a", <<"\\u1e8b">>>>,
      <<"\\u1e8c", <<"\\u1e8d">>>>, <<"\\u1e8e", <<"\\u1e8f">>>>, <<"\\u1e90", <<"\\u1e91">>>>,
      <<"\\u1e92", <<"\\u1e93">>>>, <<"\\u1e94", <<"\\u1e95">>>>, <<"\\u1e9e", <<"\\xdf">>>>,
      <<"\\u1ea0", <<"\\u1ea1">>>>, <<"\\u1ea2", <<"\\u1ea3">>>>, <<"\\u1ea4", <<"\\u1ea5">>>>,
      <<"\\u1ea6", <<"\\u1ea7">>>>, <<"\\u1ea8", <<"\\u1ea9">>>>, <<"\\u1eaa", <<"\\u1eab">>>>,
      <<"\\u1eac", <<"\\u1ead">>>>, <<"\\u1eae", <<"\\u1eaf">>>>, <<"\\u1eb0", <<"\\u1eb1">>>>,
      <<"\\u1eb2", <<"\\u1eb3">>>>, <<"\\u1eb4", <<"\\u1eb5">>>>, <<"\\u1eb6", <<"\\u1eb7">>>>,
      <<"\\u1eb8", <<"\\u1eb9">>>>, <<"\\u1eba", <<"\\u1ebb">>>>, <<"\\u1ebc", <<"\\u1ebd">>>>,
      <<"\\u1ebe", <<"\\u1ebf">>>>, <<"\\u1ec0", <<"\\u1ec1">>>>, <<"\\u1ec2", <<"\\u1ec3">>>>,
      <<"\\u1ec4", <<"\\u1ec5">>>>, <<"\\u1ec6", <<"\\u1ec7">>>>, <<"\\u1ec8", <<"\\u1ec9">>>>,
      <<"\\u1eca", <<"\\u1ecb">>>>, <<"\\u1ecc", <<"\\u1ecd">>>>, <<"\\u1ece", <<"\\u1ecf">>>>,
      <<"\\u1ed0", <<"\\u1ed1">>>>, <<"\\u1ed2", <<"\\u1ed3">>>>, <<"\\u1ed4", <<"\\u1ed5">>>>,
      <<"\\u1ed6", <<"\\u1ed7">>>>, <<"\\u1ed8", <<"\\u1ed9">>>>, <<"\\u1eda", <<"\\u1edb">>>>,
      <<"\\u1edc", <<"\\u1edd">>>>, <<"\\u1ede", <<"\\u1edf">>>>, <<"\\u1ee0", <<"\\u1ee1">>>>,
      <<"\\u1ee2", <<"\\u1ee3">>>>, <<"\\u1ee4", <<"\\u1ee5">>>>, <<"\\u1ee6", <<"\\u1ee7">>>>,
      <<"\\u1ee8", <<"\\u1ee9">>>>, <<"\\u1eea", <<"\\u1eeb">>>>, <<"\\u1eec", <<"\\u1eed">>>>,
      <<"\\u1eee", <<"\\u1eef">>>>, <<"\\u1ef0", <<"\\u1ef1">>>>, <<"\\u1ef2", <<"\\u1ef3">>>>,
      <<"\\u1ef4", <<"\\u1ef5">>>>, <<"\\u1ef6", <<"\\u1ef7">>>>, <<"\\u1ef8", <<"\\u1ef9">>>>,
      <<"\\u1efa", <<"\\u1efb">>>>, <<"\\u1efc", <<"\\u1efd">>>>, <<"\\u1efe", <<"\\u1eff">>>>,
      <<"\\u1f08", <<"\\u1f00">>>>, <<"\\u1f09", <<"\\u1f01">>>>, <<"\\u1f0a", <<"\\u1f02">>>>,
      <<"\\u1f0b", <<"\\u1f03">>>>, <<"\\u1f0c", <<"\\u1f04">>>>, <<"\\u1f0d", <<"\\u1f05">>>>,
      <<"\\u1f0e", <<"\\u1f06">>>>, <<"\\u1f0f", <<"\\u1f07">>>>, <<"\\u1f18", <<"\\u1f10">>>>,
      <<"\\u1f19", <<"\\u1f11">>>>, <<"\\u1f1a", <<"\\u1f12">>>>, <<"\\u1f1b", <<"\\u1f13">>>>,
      <<"\\u1f1c", <<"\\u1f14">>>>, <<"\\u1f1d", <<"\\u1f15">>>>, <<"\\u1f28", <<"\\u1f20">>>>,
      <<"\\u1f29", <<"\\u1f21">>>>, <<"\\u1f2a", <<"\\u1f22">>>>, <<"\\u1f2b", <<"\\u1f23">>>>,
      <<"\\u1f2c", <<"\\u1f24">>>>, <<"\\u1f2d", <<"\\u1f25">>>>, <<"\\u1f2e", <<"\\u1f26">>>>,
      <<"\\u1f2f", <<"\\u1f27">>>>, <<"\\u1f38", <<"\\u1f30">>>>, <<"\\u1f39", <<"\\u1f31">>>>,
      <<"\\u1f3a", <<"\\u1f32">>>>, <<"\\u1f3b", <<"\\u1f33">>>>, <<"\\u1f3c", <<"\\u1f34">>>>,
      <<"\\u1f3d", <<"\\u1f35">>>>, <<"\\u1f3e", <<"\\u1f36">>>>, <<"\\u1f3f", <<"\\u1f37">>>>,
      <<"\\u1f48", <<"\\u1f40">>>>, <<"\\u1f49", <<"\\u1f41">>>>, <<"\\u1f4a", <<"\\u1f42">>>>,
      <<"\\u1f4b", <<"\\u1f43">>>>, <<"\\u1f4c", <<"\\u1f44">>>>, <<"\\u1f4d", <<"\\u1f45">>>>,
      <<"\\u1f59", <<"\\u1f51">>>>, <<"\\u1f5b", <<"\\u1f53">>>>, <<"\\u1f5d", <<"\\u1f55">>>>,
      <<"\\u1f5f", <<"\\u1f57">>>>, <<"\\u1f68", <<"\\u1f60">>>>, <<"\\u1f69", <<"\\u1f61">>>>,
      <<"\\u1f6a", <<"\\u1f62">>>>, <<"\\u1f6b", <<"\\u1f63">>>>, <<"\\u1f6c", <<"\\u1f64">>>>,
      <<"\\u1f6d", <<"\\u1f65">>>>, <<"\\u1f6e", <<"\\u1f66">>>>, <<"\\u1f6f", <<"\\u1f67">>>>,
      <<"\\u1f88", <<"\\u1f80">>>>, <<"\\u1f89", <<"\\u1f81">>>>, <<"\\u1f8a", <<"\\u1f82">>>>,
      <<"\\u1f8b", <<"\\u1f83">>>>, <<"\\u1f8c", <<"\\u1f84">>>>, <<"\\u1f8d", <<"\\u1f85">>>>,
      <<"\\u1f8e", <<"\\u1f86">>>>, <<"\\u1f8f", <<"\\u1f87">>>>, <<"\\u1f98", <<"\\u1f90">>>>,
      <<"\\u1f99", <<"\\u1f91">>>>, <<"\\u1f9a", <<"\\u1f92">>>>, <<"\\u1f9b", <<"\\u1f93">>>>,
      <<"\\u1f9c", <<"\\u1f94">>>>, <<"\\u1f9d", <<"\\u1f95">>>>, <<"\\u1f9e", <<"\\u1f96">>>>,
      <<"\\u1f9f", <<"\\u1f97">>>>, <<"\\u1fa8", <<"\\u1fa0">>>>, <<"\\u1fa9", <<"\\u1fa1">>>>,
      <<"\\u1faa", <<"\\u1fa2">>>>, <<"\\u1fab", <<"\\u1fa3">>>>, <<"\\u1fac", <<"\\u1fa4">>>>,
      <<"\\u1fad", <<"\\u1fa5">>>>, <<"\\u1fae", <<"\\u1fa6">>>>, <<"\\u1faf", <<"\\u1fa7">>>>,
      <<"\\u1fb8", <<"\\u1fb0">>>>, <<"\\u1fb9", <<"\\u1fb1">>>>, <<"\\u1fba", <<"\\u1f70">>>>,
      <<"\\u1fbb", <<"\\u1f71">>>>, <<"\\u1fbc", <<"\\u1fb3">>>>, <<"\\u1fc8", <<"\\u1f72">>>>,
      <<"\\u1fc9", <<"\\u1f73">>>>, <<"\\u1fca", <<"\\u1f74">>>>, <<"\\u1fcb", <<"\\u1f75">>>>,
      <<"\\u1fcc", <<"\\u1fc3">>>>, <<"\\u1fd8", <<"\\u1fd0">>>>, <<"\\u1fd9", <<"\\u1fd1">>>>,
      <<"\\u1fda", <<"\\u1f76">>>>, <<"\\u1fdb", <<"\\u1f77">>>>, <<"\\u1fe8", <<"\\u1fe0">>>>,
      <<"\\u1fe9", <<"\\u1fe1">>>>, <<"\\u1fea", <<"\\u1f7a">>>>, <<"\\u1feb", <<"\\u1f7b">>>>,
      <<"\\u1fec", <<"\\u1fe5">>>>, <<"\\u1ff8", <<"\\u1f78">>>>, <<"\\u1ff9", <<"\\u1f79">>>>,
      <<"\\u1ffa", <<"\\u1f7c">>>>, <<"\\u1ffb", <<"\\u1f7d">>>>, <<"\\u1ffc", <<"\\u1ff3">>>>,
      <<"\\u2126", <<"\\u03c9">>>>, <<"\\u212a", <<"k">>>>, <<"\\u212b", <<"\\xe5">>>>,
      <<"\\u2132", <<"\\u214e">>>>, <<"\\u2160", <<"\\u2170">>>>, <<"\\u2161", <<"\\u2171">>>>,
      <<"\\u2162", <<"\\u2172">>>>, <<"\\u2163", <<"\\u2173">>>>, <<"\\u2164", <<"\\u2174">>>>,
      <<"\\u2165", <<"\\u2175">>>>, <<"\\u2166", <<"\\u2176">>>>, <<"\\u2167", <<"\\u2177">>>>,
      <<"\\u2168", <<"\\u2178">>>>, <<"\\u2169", <<"\\u2179">>>>, <<"\\u216a", <<"\\u217a">>>>,
      <<"\\u216b", <<"\\u217b">>>>, <<"\\u216c", <<"\\u217c">>>>, <<"\\u216d", <<"\\u217d">>>>,
      <<"\\u216e", <<"\\u217e">>>>, <<"\\u216f", <<"\\u217f">>>>, <<"\\u2183", <<"\\u2184">>>>,
      <<"\\u24b6", <<"\\u24d0">>>>, <<"\\u24b7", <<"\\u24d1">>>>, <<"\\u24b8", <<"\\u24d2">>>>,
      <<"\\u24b9", <<"\\u24d3">>>>, <<"\\u24ba", <<"\\u24d4">>>>, <<"\\u24bb", <<"\\u24d5">>>>,
      <<"\\u24bc", <<"\\u24d6">>>>, <<"\\u24bd", <<"\\u24d7">>>>, <<"\\u24be", <<"\\u24d8">>>>,
      <<"\\u24bf", <<"\\u24d9">>>>, <<"\\u24c0", <<"\\u24da">>>>, <<"\\u24c1", <<"\\u24db">>>>,
      <<"\\u24c2", <<"\\u24dc">>>>, <<"\\u24c3", <<"\\u24dd">>>>, <<"\\u24c4", <<"\\u24de">>>>,
      <<"\\u24c5", <<"\\u24df">>>>, <<"\\u24c6", <<"\\u24e0">>>>, <<"\\u24c7", <<"\\u24e1">>>>,
      <<"\\u24c8", <<"\\u24e2">>>>, <<"\\u24c9", <<"\\u24e3">>>>, <<"\\u24ca", <<"\\u24e4">>>>,
      <<"\\u24cb", <<"\\u24e5">>>>, <<"\\u24cc", <<"\\u24e6">>>>, <<"\\u24cd", <<"\\u24e7">>>>,
      <<"\\u24ce", <<"\\u24e8">>>>, <<"\\u24cf", <<"\\u24e9">>>>, <<"\\u2c00", <<"\\u2c30">>>>,
      <<"\\u2c01", <<"\\u2c31">>>>, <<"\\u2c02", <<"\\u2c32">>>>, <<"\\u2c03", <<"\\u2c33">>>>,
      <<"\\u2c04", <<"\\u2c34">>>>, <<"\\u2c05", <<"\\u2c35">>>>, <<"\\u2c06", <<"\\u2c36">>>>,
      <<"\\u2c07", <<"\\u2c37">>>>, <<"\\u2c08", <<"\\u2c38">>>>, <<"\\u2c09", <<"\\u2c39">>>>,
      <<"\\u2c0a", <<"\\u2c3a">>>>, <<"\\u2c0b", <<"\\u2c3b">>>>, <<"\\u2c0c", <<"\\u2c3c">>>>,
      <<"\\u2c0d", <<"\\u2c3d">>>>, <<"\\u2c0e", <<"\\u2c3e">>>>, <<"\\u2c0f", <<"\\u2c3f">>>>,
      <<"\\u2c10", <<"\\u2c40">>>>, <<"\\u2c11", <<"\\u2c41">>>>, <<"\\u2c12", <<"\\u2c42">>>>,
      <<"\\u2c13", <<"\\u2c43">>>>, <<"\\u2c14", <<"\\u2c44">>>>, <<"\\u2c15", <<"\\u2c45">>>>,
      <<"\\u2c16", <<"\\u2c46">>>>, <<"\\u2c17", <<"\\u2c47">>>>, <<"\\u2c18", <<"\\u2c48">>>>,
      <<"\\u2c19", <<"\\u2c49">>>>, <<"\\u2c1a", <<"\\u2c4a">>>>, <<"\\u2c1b", <<"\\u2c4b">>>>,
      <<"\\u2c1c", <<"\\u2c4c">>>>, <<"\\u2c1d", <<"\\u2c4d">>>>, <<"\\u2c1e", <<"\\u2c4e">>>>,
      <<"\\u2c1f", <<"\\u2c4f">>>>, <<"\\u2c20", <<"\\u2c50">>>>, <<"\\u2c21", <<"\\u2c51">>>>,
      <<"\\u2c22", <<"\\u2c52">>>>, <<"\\u2c23", <<"\\u2c53">>>>, <<"\\u2c24", <<"\\u2c54">>>>,
      <<"\\u2c25", <<"\\u2c55">>>>, <<"\\u2c26", <<"\\u2c56">>>>, <<"\\u2c27", <<"\\u2c57">>>>,
      <<"\\u2c28", <<"\\u2c58">>>>, <<"\\u2c29", <<"\\u2c59">>>>, <<"\\u2c2a", <<"\\u2c5a">>>>,
      <<"\\u2c2b", <<"\\u2c5b">>>>, <<"\\u2c2c", <<"\\u2c5c">>>>, <<"\\u2c2d", <<"\\u2c5d">>>>,
      <<"\\u2c2e", <<"\\u2c5e">>>>, <<"\\u2c2f", <<"\\u2c5f">>>>, <<"\\u2c60", <<"\\u2c61">>>>,
      <<"\\u2c62", <<"\\u026b">>>>, <<"\\u2c63", <<"\\u1d7d">>>>, <<"\\u2c64", <<"\\u027d">>>>,
      <<"\\u2c67", <<"\\u2c68">>>>, <<"\\u2c69", <<"\\u2c6a">>>>, <<"\\u2c6b", <<"\\u2c6c">>>>,
      <<"\\u2c6d", <<"\\u0251">>>>, <<"\\u2c6e", <<"\\u0271">>>>, <<"\\u2c6f", <<"\\u0250">>>>,
      <<"\\u2c70", <<"\\u0252">>>>, <<"\\u2c72", <<"\\u2c73">>>>, <<"\\u2c75", <<"\\u2c76">>>>,
      <<"\\u2c7e", <<"\\u023f">>>>, <<"\\u2c7f", <<"\\u0240">>>>, <<"\\u2c80", <<"\\u2c81">>>>,
      <<"\\u2c82", <<"\\u2c83">>>>, <<"\\u2c84", <<"\\u2c85">>>>, <<"\\u2c86", <<"\\u2c87">>>>,
      <<"\\u2c88", <<"\\u2c89">>>>, <<"\\u2c8a", <<"\\u2c8b">>>>, <<"\\u2c8c", <<"\\u2c8d">>>>,
      <<"\\u2c8e", <<"\\u2c8f">>>>, <<"\\u2c90", <<"\\u2c91">>>>, <<"\\u2c92", <<"\\u2c93">>>>,
      <<"\\u2c94", <<"\\u2c95">>>>, <<"\\u2c96", <<"\\u2c97">>>>, <<"\\u2c98", <<"\\u2c99">>>>,
      <<"\\u2c9a", <<"\\u2c9b">>>>, <<"\\u2c9c", <<"\\u2c9d">>>>, <<"\\u2c9e", <<"\\u2c9f">>>>,
      <<"\\u2ca0", <<"\\u2ca1">>>>, <<"\\u2ca2", <<"\\u2ca3">>>>, <<"\\u2ca4", <<"\\u2ca5">>>>,
      <<"\\u2ca6", <<"\\u2ca7">>>>, <<"\\u2ca8", <<"\\u2ca9">>>>, <<"\\u2caa", <<"\\u2cab">>>>,
      <<"\\u2cac", <<"\\u2cad">>>>, <<"\\u2cae", <<"\\u2caf">>>>, <<"\\u2cb0", <<"\\u2cb1">>>>,
      <<"\\u2cb2", <<"\\u2cb3">>>>, <<"\\u2cb4", <<"\\u2cb5">>>>, <<"\\u2cb6", <<"\\u2cb7">>>>,
      <<"\\u2cb8", <<"\\u2cb9">>>>, <<"\\u2cba", <<"\\u2cbb">>>>, <<"\\u2cbc", <<"\\u2cbd">>>>,
      <<"\\u2cbe", <<"\\u2cbf">>>>, <<"\\u2cc0", <<"\\u2cc1">>>>, <<"\\u2cc2", <<"\\u2cc3">>>>,
      <<"\\u2cc4", <<"\\u2cc5">>>>, <<"\\u2cc6", <<"\\u2cc7">>>>, <<"\\u2cc8", <<"\\u2cc9">>>>,
      <<"\\u2cca", <<"\\u2ccb">>>>, <<"\\u2ccc", <<"\\u2ccd">>>>, <<"\\u2cce", <<"\\u2ccf">>>>,
      <<"\\u2cd0", <<"\\u2cd1">>>>, <<"\\u2cd2", <<"\\u2cd3">>>>, <<"\\u2cd4", <<"\\u2cd5">>>>,
      <<"\\u2cd6", <<"\\u2cd7">>>>, <<"\\u2cd8", <<"\\u2cd9">>>>, <<"\\u2cda", <<"\\u2cdb">>>>,
      <<"\\u2cdc", <<"\\u2cdd">>>>, <<"\\u2cde", <<"\\u2cdf">>>>, <<"\\u2ce0", <<"\\u2ce1">>>>,
      <<"\\u2ce2", <<"\\u2ce3">>>>, <<"\\u2ceb", <<"\\u2cec">>>>, <<"\\u2ced", <<"\\u2cee">>>>,
      <<"\\u2cf2", <<"\\u2cf3">>>>, <<"\\ua640", <<"\\ua641">>>>, <<"\\ua642", <<"\\ua643">>>>,
      <<"\\ua644", <<"\\ua645">>>>, <<"\\ua646", <<"\\ua647">>>>, <<"\\ua648", <<"\\ua649">>>>,
      <<"\\ua64a", <<"\\ua64b">>>>, <<"\\ua64c", <<"\\ua64d">>>>, <<"\\ua64e", <<"\\ua64f">>>>,
      <<"\\ua650", <<"\\ua651">>>>, <<"\\ua652", <<"\\ua653">>>>, <<"\\ua654", <<"\\ua655">>>>,
      <<"\\ua656", <<"\\ua657">>>>, <<"\\ua658", <<"\\ua659">>>>, <<"\\ua65a", <<"\\ua65b">>>>,
      <<"\\ua65c", <<"\\ua65d">>>>, <<"\\ua65e", <<"\\ua65f">>>>, <<"\\ua660", <<"\\ua661">>>>,
      <<"\\ua662", <<"\\ua663">>>>, <<"\\ua664", <<"\\ua665">>>>, <<"\\ua666", <<"\\ua667">>>>,
      <<"\\ua668", <<"\\ua669">>>>, <<"\\ua66a", <<"\\ua66b">>>>, <<"\\ua66c", <<"\\ua66d">>>>,
      <<"\\ua680", <<"\\ua681">>>>, <<"\\ua682", <<"\\ua683">>>>, <<"\\ua684", <<"\\ua685">>>>,
      <<"\\ua686", <<"\\ua687">>>>, <<"\\ua688", <<"\\ua689">>>>, <<"\\ua68a", <<"\\ua68b">>>>,
      <<"\\ua68c", <<"\\ua68d">>>>, <<"\\ua68e", <<"\\ua68f">>>>, <<"\\ua690", <<"\\ua691">>>>,
      <<"\\ua692", <<"\\ua693">>>>, <<"\\ua694", <<"\\ua695">>>>, <<"\\ua696", <<"\\ua697">>>>,
      <<"\\ua698", <<"\\ua699">>>>, <<"\\ua69a", <<"\\ua69b">>>>, <<"\\ua722", <<"\\ua723">>>>,
      <<"\\ua724", <<"\\ua725">>>>, <<"\\ua726", <<"\\ua727">>>>, <<"\\ua728", <<"\\ua729">>>>,
      <<"\\ua72a", <<"\\ua72b">>>>, <<"\\ua72c", <<"\\ua72d">>>>, <<"\\ua72e", <<"\\ua72f">>>>,
      <<"\\ua732", <<"\\ua733">>>>, <<"\\ua734", <<"\\ua735">>>>, <<"\\ua736", <<"\\ua737">>>>,
      <<"\\ua738", <<"\\ua739">>>>, <<"\\ua73a", <<"\\ua73b">>>>, <<"\\ua73c", <<"\\ua73d">>>>,
      <<"\\ua73e", <<"\\ua73f">>>>, <<"\\ua740", <<"\\ua741">>>>, <<"\\ua742", <<"\\ua743">>>>,
      <<"\\ua744", <<"\\ua745">>>>, <<"\\ua746", <<"\\ua747">>>>, <<"\\ua748", <<"\\ua749">>>>,
      <<"\\ua74a", <<"\\ua74b">>>>, <<"\\ua74c", <<"\\ua74d">>>>, <<"\\ua74e", <<"\\ua74f">>>>,
      <<"\\ua750", <<"\\ua751">>>>, <<"\\ua752", <<"\\ua753">>>>, <<"\\ua754", <<"\\ua755">>>>,
      <<"\\ua756", <<"\\ua757">>>>, <<"\\ua758", <<"\\ua759">>>>, <<"\\ua75a", <<"\\ua75b">>>>,
      <<"\\ua75c", <<"\\ua75d">>>>, <<"\\ua75e", <<"\\ua75f">>>>, <<"\\ua760", <<"\\ua761">>>>,
      <<"\\ua762", <<"\\ua763">>>>, <<"\\ua764", <<"\\ua765">>>>, <<"\\ua766", <<"\\ua767">>>>,
      <<"\\ua768", <<"\\ua769">>>>, <<"\\ua76a", <<"\\ua76b">>>>, <<"\\ua76c", <<"\\ua76d">>>>,
      <<"\\ua76e", <<"\\ua76f">>>>, <<"\\ua779", <<"\\ua77a">>>>, <<"\\ua77b", <<"\\ua77c">>>>,
      <<"\\ua77d", <<"\\u1d79">>>>, <<"\\ua77e", <<"\\ua77f">>>>, <<"\\ua780", <<"\\ua781">>>>,
      <<"\\ua782", <<"\\ua783">>>>, <<"\\ua784", <<"\\ua785">>>>, <<"\\ua786", <<"\\ua787">>>>,
      <<"\\ua78b", <<"\\ua78c">>>>, <<"\\ua78d", <<"\\u0265">>>>, <<"\\ua790", <<"\\ua791">>>>,
      <<"\\ua792", <<"\\ua793">>>>, <<"\\ua796", <<"\\ua797">>>>, <<"\\ua798", <<"\\ua799">>>>,
      <<"\\ua79a", <<"\\ua79b">>>>, <<"\\ua79c", <<"\\ua79d">>>>, <<"\\ua79e", <<"\\ua79f">>>>,
      <<"\\ua7a0", <<"\\ua7a1">>>>, <<"\\ua7a2", <<"\\ua7a3">>>>, <<"\\ua7a4", <<"\\ua7a5">>>>,
      <<"\\ua7a6", <<"\\ua7a7">>>>, <<"\\ua7a8", <<"\\ua7a9">>>>, <<"\\ua7aa", <<"\\u0266">>>>,
      <<"\\ua7ab", <<"\\u025c">>>>, <<"\\ua7ac", <<"\\u0261">>>>, <<"\\ua7ad", <<"\\u026c">>>>,
      <<"\\ua7ae", <<"\\u026a">>>>, <<"\\ua7b0", <<"\\u029e">>>>, <<"\\ua7b1", <<"\\u0287">>>>,
      <<"\\ua7b2", <<"\\u029d">>>>, <<"\\ua7b3", <<"\\uab53">>>>, <<"\\ua7b4", <<"\\ua7b5">>>>,
      <<"\\ua7b6", <<"\\ua7b7">>>>, <<"\\ua7b8", <<"\\ua7b9">>>>, <<"\\ua7ba", <<"\\ua7bb">>>>,
      <<"\\ua7bc", <<"\\ua7bd">>>>, <<"\\ua7be", <<"\\ua7bf">>>>, <<"\\ua7c0", <<"\\ua7c1">>>>,
      <<"\\ua7c2", <<"\\ua7c3">>>>, <<"\\ua7c4", <<"\\ua794">>>>, <<"\\ua7c5", <<"\\u0282">>>>,
      <<"\\ua7c6", <<"\\u1d8e">>>>, <<"\\ua7c7", <<"\\ua7c8">>>>, <<"\\ua7c9", <<"\\ua7ca">>>>,
      <<"\\ua7d0", <<"\\ua7d1">>>>, <<"\\ua7d6", <<"\\ua7d7">>>>, <<"\\ua7d8", <<"\\ua7d9">>>>,
      <<"\\ua7f5", <<"\\ua7f6">>>>, <<"\\uff21", <<"\\uff41">>>>, <<"\\uff22", <<"\\uff42">>>>,
      <<"\\uff23", <<"\\uff43">>>>, <<"\\uff24", <<"\\uff44">>>>, <<"\\uff25", <<"\\uff45">>>>,
      <<"\\uff26", <<"\\uff46">>>>, <<"\\uff27", <<"\\uff47">>>>, <<"\\uff28", <<"\\uff48">>>>,
      <<"\\uff29", <<"\\uff49">>>>, <<"\\uff2a", <<"\\uff4a">>>>, <<"\\uff2b", <<"\\uff4b">>>>,
      <<"\\uff2c", <<"\\uff4c">>>>, <<"\\uff2d", <<"\\uff4d">>>>, <<"\\uff2e", <<"\\uff4e">>>>,
      <<"\\uff2f", <<"\\uff4f">>>>, <<"\\uff30", <<"\\uff50">>>>, <<"\\uff31", <<"\\uff51">>>>,
      <<"\\uff32", <<"\\uff52">>>>, <<"\\uff33", <<"\\uff53">>>>, <<"\\uff34", <<"\\uff54">>>>,
      <<"\\uff35", <<"\\uff55">>>>, <<"\\uff36", <<"\\uff56">>>>, <<"\\uff37", <<"\\uff57">>>>,
      <<"\\uff38", <<"\\uff58">>>>, <<"\\uff39", <<"\\uff59">>>>, <<"\\uff3a", <<"\\uff5a">>>>,
      <<"\\U00010400", <<"\\U00010428">>>>, <<"\\U00010401", <<"\\U00010429">>>>,
      <<"\\U00010402", <<"\\U0001042a">>>>, <<"\\U00010403", <<"\\U0001042b">>>>,
      <<"\\U00010404", <<"\\U0001042c">>>>, <<"\\U00010405", <<"\\U0001042d">>>>,
      <<"\\U00010406", <<"\\U0001042e">>>>, <<"\\U00010407", <<"\\U0001042f">>>>,
      <<"\\U00010408", <<"\\U00010430">>>>, <<"\\U00010409", <<"\\U00010431">>>>,
      <<"\\U0001040a", <<"\\U00010432">>>>, <<"\\U0001040b", <<"\\U00010433">>>>,
      <<"\\U0001040c", <<"\\U00010434">>>>, <<"\\U0001040d", <<"\\U00010435">>>>,
      <<"\\U0001040e", <<"\\U00010436">>>>, <<"\\U0001040f", <<"\\U00010437">>>>,
      <<"\\U00010410", <<"\\U00010438">>>>, <<"\\U00010411", <<"\\U00010439">>>>,
      <<"\\U00010412", <<"\\U0001043a">>>>, <<"\\U00010413", <<"\\U0001043b">>>>,
      <<"\\U00010414", <<"\\U0001043c">>>>, <<"\\U00010415", <<"\\U0001043d">>>>,
      <<"\\U00010416", <<"\\U0001043e">>>>, <<"\\U00010417", <<"\\U0001043f">>>>,
      <<"\\U00010418", <<"\\U00010440">>>>, <<"\\U00010419", <<"\\U00010441">>>>,
      <<"\\U0001041a", <<"\\U00010442">>>>, <<"\\U0001041b", <<"\\U00010443">>>>,
      <<"\\U0001041c", <<"\\U00010444">>>>, <<"\\U0001041d", <<"\\U00010445">>>>,
      <<"\\U0001041e", <<"\\U00010446">>>>, <<"\\U0001041f", <<"\\U00010447">>>>,
      <<"\\U00010420", <<"\\U00010448">>>>, <<"\\U00010421", <<"\\U00010449">>>>,
      <<"\\U00010422", <<"\\U0001044a">>>>, <<"\\U00010423", <<"\\U0001044b">>>>,
      <<"\\U00010424", <<"\\U0001044c">>>>, <<"\\U00010425", <<"\\U0001044d">>>>,
      <<"\\U00010426", <<"\\U0001044e">>>>, <<"\\U00010427", <<"\\U0001044f">>>>,
      <<"\\U000104b0", <<"\\U000104d8">>>>, <<"\\U000104b1", <<"\\U000104d9">>>>,
      <<"\\U000104b2", <<"\\U000104da">>>>, <<"\\U000104b3", <<"\\U000104db">>>>,
      <<"\\U000104b4", <<"\\U000104dc">>>>, <<"\\U000104b5", <<"\\U000104dd">>>>,
      <<"\\U000104b6", <<"\\U000104de">>>>, <<"\\U000104b7", <<"\\U000104df">>>>,
      <<"\\U000104b8", <<"\\U000104e0">>>>, <<"\\U000104b9", <<"\\U000104e1">>>>,
      <<"\\U000104ba", <<"\\U000104e2">>>>, <<"\\U000104bb", <<"\\U000104e3">>>>,
      <<"\\U000104bc", <<"\\U000104e4">>>>, <<"\\U000104bd", <<"\\U000104e5">>>>,
      <<"\\U000104be", <<"\\U000104e6">>>>, <<"\\U000104bf", <<"\\U000104e7">>>>,
      <<"\\U000104c0", <<"\\U000104e8">>>>, <<"\\U000104c1", <<"\\U000104e9">>>>,
      <<"\\U000104c2", <<"\\U000104ea">>>>, <<"\\U000104c3", <<"\\U000104eb">>>>,
      <<"\\U000104c4", <<"\\U000104ec">>>>, <<"\\U000104c5", <<"\\U000104ed">>>>,
      <<"\\U000104c6", <<"\\U000104ee">>>>, <<"\\U000104c7", <<"\\U000104ef">>>>,
      <<"\\U000104c8", <<"\\U000104f0">>>>, <<"\\U000104c9", <<"\\U000104f1">>>>,
      <<"\\U000104ca", <<"\\U000104f2">>>>, <<"\\U000104cb", <<"\\U000104f3">>>>,
      <<"\\U000104cc", <<"\\U000104f4">>>>, <<"\\U000104cd", <<"\\U000104f5">>>>,
      <<"\\U000104ce", <<"\\U000104f6">>>>, <<"\\U000104cf", <<"\\U000104f7">>>>,
      <<"\\U000104d0", <<"\\U000104f8">>>>, <<"\\U000104d1", <<"\\U000104f9">>>>,
      <<"\\U000104d2", <<"\\U000104fa">>>>, <<"\\U000104d3", <<"\\U000104fb">>>>,
      <<"\\U00010570", <<"\\U00010597">>>>, <<"\\U00010571", <<"\\U00010598">>>>,
      <<"\\U00010572", <<"\\U00010599">>>>, <<"\\U00010573", <<"\\U0001059a">>>>,
      <<"\\U00010574", <<"\\U0001059b">>>>, <<"\\U00010575", <<"\\U0001059c">>>>,
      <<"\\U00010576", <<"\\U0001059d">>>>, <<"\\U00010577", <<"\\U0001059e">>>>,
      <<"\\U00010578", <<"\\U0001059f">>>>, <<"\\U00010579", <<"\\U000105a0">>>>,
      <<"\\U0001057a", <<"\\U000105a1">>>>, <<"\\U0001057c", <<"\\U000105a3">>>>,
      <<"\\U0001057d", <<"\\U000105a4">>>>, <<"\\U0001057e", <<"\\U000105a5">>>>,
      <<"\\U0001057f", <<"\\U000105a6">>>>, <<"\\U00010580", <<"\\U000105a7">>>>,
      <<"\\U00010581", <<"\\U000105a8">>>>, <<"\\U00010582", <<"\\U000105a9">>>>,
      <<"\\U00010583", <<"\\U000105aa">>>>, <<"\\U00010584", <<"\\U000105ab">>>>,
      <<"\\U00010585", <<"\\U000105ac">>>>, <<"\\U00010586", <<"\\U000105ad">>>>,
      <<"\\U00010587", <<"\\U000105ae">>>>, <<"\\U00010588", <<"\\U000105af">>>>,
      <<"\\U00010589", <<"\\U000105b0">>>>, <<"\\U0001058a", <<"\\U000105b1">>>>,
      <<"\\U0001058c", <<"\\U000105b3">>>>, <<"\\U0001058d", <<"\\U000105b4">>>>,
      <<"\\U0001058e", <<"\\U000105b5">>>>, <<"\\U0001058f", <<"\\U000105b6">>>>,
      <<"\\U00010590", <<"\\U000105b7">>>>, <<"\\U00010591", <<"\\U000105b8">>>>,
      <<"\\U00010592", <<"\\U000105b9">>>>, <<"\\U00010594", <<"\\U000105bb">>>>,
      <<"\\U00010595", <<"\\U000105bc">>>>, <<"\\U00010c80", <<"\\U00010cc0">>>>,
      <<"\\U00010c81", <<"\\U00010cc1">>>>, <<"\\U00010c82", <<"\\U00010cc2">>>>,
      <<"\\U00010c83", <<"\\U00010cc3">>>>, <<"\\U00010c84", <<"\\U00010cc4">>>>,
      <<"\\U00010c85", <<"\\U00010cc5">>>>, <<"\\U00010c86", <<"\\U00010cc6">>>>,
      <<"\\U00010c87", <<"\\U00010cc7">>>>, <<"\\U00010c88", <<"\\U00010cc8">>>>,
      <<"\\U00010c89", <<"\\U00010cc9">>>>, <<"\\U00010c8a", <<"\\U00010cca">>>>,
      <<"\\U00010c8b", <<"\\U00010ccb">>>>, <<"\\U00010c8c", <<"\\U00010ccc">>>>,
      <<"\\U00010c8d", <<"\\U00010ccd">>>>, <<"\\U00010c8e", <<"\\U00010cce">>>>,
      <<"\\U00010c8f", <<"\\U00010ccf">>>>, <<"\\U00010c90", <<"\\U00010cd0">>>>,
      <<"\\U00010c91", <<"\\U00010cd1">>>>, <<"\\U00010c92", <<"\\U00010cd2">>>>,
      <<"\\U00010c93", <<"\\U00010cd3">>>>, <<"\\U00010c94", <<"\\U00010cd4">>>>,
      <<"\\U00010c95", <<"\\U00010cd5">>>>, <<"\\U00010c96", <<"\\U00010cd6">>>>,
      <<"\\U00010c97", <<"\\U00010cd7">>>>, <<"\\U00010c98", <<"\\U00010cd8">>>>,
      <<"\\U00010c99", <<"\\U00010cd9">>>>, <<"\\U00010c9a", <<"\\U00010cda">>>>,
      <<"\\U00010c9b", <<"\\U00010cdb">>>>, <<"\\U00010c9c", <<"\\U00010cdc">>>>,
      <<"\\U00010c9d", <<"\\U00010cdd">>>>, <<"\\U00010c9e", <<"\\U00010cde">>>>,
      <<"\\U00010c9f", <<"\\U00010cdf">>>>, <<"\\U00010ca0", <<"\\U00010ce0">>>>,
      <<"\\U00010ca1", <<"\\U00010ce1">>>>, <<"\\U00010ca2", <<"\\U00010ce2">>>>,
      <<"\\U00010ca3", <<"\\U00010ce3">>>>, <<"\\U00010ca4", <<"\\U00010ce4">>>>,
      <<"\\U00010ca5", <<"\\U00010ce5">>>>, <<"\\U00010ca6", <<"\\U00010ce6">>>>,
      <<"\\U00010ca7", <<"\\U00010ce7">>>>, <<"\\U00010ca8", <<"\\U00010ce8">>>>,
      <<"\\U00010ca9", <<"\\U00010ce9">>>>, <<"\\U00010caa", <<"\\U00010cea">>>>,
      <<"\\U00010cab", <<"\\U00010ceb">>>>, <<"\\U00010cac", <<"\\U00010cec">>>>,
      <<"\\U00010cad", <<"\\U00010ced">>>>, <<"\\U00010cae", <<"\\U00010cee">>>>,
      <<"\\U00010caf", <<"\\U00010cef">>>>, <<"\\U00010cb0", <<"\\U00010cf0">>>>,
      <<"\\U00010cb1", <<"\\U00010cf1">>>>, <<"\\U00010cb2", <<"\\U00010cf2">>>>,
      <<"\\U000118a0", <<"\\U000118c0">>>>, <<"\\U000118a1", <<"\\U000118c1">>>>,
      <<"\\U000118a2", <<"\\U000118c2">>>>, <<"\\U000118a3", <<"\\U000118c3">>>>,
      <<"\\U000118a4", <<"\\U000118c4">>>>, <<"\\U000118a5", <<"\\U000118c5">>>>,
      <<"\\U000118a6", <<"\\U000118c6">>>>, <<"\\U000118a7", <<"\\U000118c7">>>>,
      <<"\\U000118a8", <<"\\U000118c8">>>>, <<"\\U000118a9", <<"\\U000118c9">>>>,
      <<"\\U000118aa", <<"\\U000118ca">>>>, <<"\\U000118ab", <<"\\U000118cb">>>>,
      <<"\\U000118ac", <<"\\U000118cc">>>>, <<"\\U000118ad", <<"\\U000118cd">>>>,
      <<"\\U000118ae", <<"\\U000118ce">>>>, <<"\\U000118af", <<"\\U000118cf">>>>,
      <<"\\U000118b0", <<"\\U000118d0">>>>, <<"\\U000118b1", <<"\\U000118d1">>>>,
      <<"\\U000118b2", <<"\\U000118d2">>>>, <<"\\U000118b3", <<"\\U000118d3">>>>,
      <<"\\U000118b4", <<"\\U000118d4">>>>, <<"\\U000118b5", <<"\\U000118d5">>>>,
      <<"\\U000118b6", <<"\\U000118d6">>>>, <<"\\U000118b7", <<"\\U000118d7">>>>,
      <<"\\U000118b8", <<"\\U000118d8">>>>, <<"\\U000118b9", <<"\\U000118d9">>>>,
      <<"\\U000118ba", <<"\\U000118da">>>>, <<"\\U000118bb", <<"\\U000118db">>>>,
      <<"\\U000118bc", <<"\\U000118dc">>>>, <<"\\U000118bd", <<"\\U000118dd">>>>,
      <<"\\U000118be", <<"\\U000118de">>>>, <<"\\U000118bf", <<"\\U000118df">>>>,
      <<"\\U00016e40", <<"\\U00016e60">>>>, <<"\\U00016e41", <<"\\U00016e61">>>>,
      <<"\\U00016e42", <<"\\U00016e62">>>>, <<"\\U00016e43", <<"\\U00016e63">>>>,
      <<"\\U00016e44", <<"\\U00016e64">>>>, <<"\\U00016e45", <<"\\U00016e65">>>>,
      <<"\\U00016e46", <<"\\U00016e66">>>>, <<"\\U00016e47", <<"\\U00016e67">>>>,
      <<"\\U00016e48", <<"\\U00016e68">>>>, <<"\\U00016e49", <<"\\U00016e69">>>>,
      <<"\\U00016e4a", <<"\\U00016e6a">>>>, <<"\\U00016e4b", <<"\\U00016e6b">>>>,
      <<"\\U00016e4c", <<"\\U00016e6c">>>>, <<"\\U00016e4d", <<"\\U00016e6d">>>>,
      <<"\\U00016e4e", <<"\\U00016e6e">>>>, <<"\\U00016e4f", <<"\\U00016e6f">>>>,
      <<"\\U00016e50", <<"\\U00016e70">>>>, <<"\\U00016e51", <<"\\U00016e71">>>>,
      <<"\\U00016e52", <<"\\U00016e72">>>>, <<"\\U00016e53", <<"\\U00016e73">>>>,
      <<"\\U00016e54", <<"\\U00016e74">>>>, <<"\\U00016e55", <<"\\U00016e75">>>>,
      <<"\\U00016e56", <<"\\U00016e76">>>>, <<"\\U00016e57", <<"\\U00016e77">>>>,
      <<"\\U00016e58", <<"\\U00016e78">>>>, <<"\\U00016e59", <<"\\U00016e79">>>>,
      <<"\\U00016e5a", <<"\\U00016e7a">>>>, <<"\\U00016e5b", <<"\\U00016e7b">>>>,
      <<"\\U00016e5c", <<"\\U00016e7c">>>>, <<"\\U00016e5d", <<"\\U00016e7d">>>>,
      <<"\\U00016e5e", <<"\\U00016e7e">>>>, <<"\\U00016e5f", <<"\\U00016e7f">>>>,
      <<"\\U0001e900", <<"\\U0001e922">>>>, <<"\\U0001e901", <<"\\U0001e923">>>>,
      <<"\\U0001e902", <<"\\U0001e924">>>>, <<"\\U0001e903", <<"\\U0001e925">>>>,
      <<"\\U0001e904", <<"\\U0001e926">>>>, <<"\\U0001e905", <<"\\U0001e927">>>>,
      <<"\\U0001e906", <<"\\U0001e928">>>>, <<"\\U0001e907", <<"\\U0001e929">>>>,
      <<"\\U0001e908", <<"\\U0001e92a">>>>, <<"\\U0001e909", <<"\\U0001e92b">>>>,
      <<"\\U0001e90a", <<"\\U0001e92c">>>>, <<"\\U0001e90b", <<"\\U0001e92d">>>>,
      <<"\\U0001e90c", <<"\\U0001e92e">>>>, <<"\\U0001e90d", <<"\\U0001e92f">>>>,
      <<"\\U0001e90e", <<"\\U0001e930">>>>, <<"\\U0001e90f", <<"\\U0001e931">>>>,
      <<"\\U0001e910", <<"\\U0001e932">>>>, <<"\\U0001e911", <<"\\U0001e933">>>>,
      <<"\\U0001e912", <<"\\U0001e934">>>>, <<"\\U0001e913", <<"\\U0001e935">>>>,
      <<"\\U0001e914", <<"\\U0001e936">>>>, <<"\\U0001e915", <<"\\U0001e937">>>>,
      <<"\\U0001e916", <<"\\U0001e938">>>>, <<"\\U0001e917", <<"\\U0001e939">>>>,
      <<"\\U0001e918", <<"\\U0001e93a">>>>, <<"\\U0001e919", <<"\\U0001e93b">>>>,
      <<"\\U0001e91a", <<"\\U0001e93c">>>>, <<"\\U0001e91b", <<"\\U0001e93d">>>>,
      <<"\\U0001e91c", <<"\\U0001e93e">>>>, <<"\\U0001e91d", <<"\\U0001e93f">>>>,
      <<"\\U0001e91e", <<"\\U0001e940">>>>, <<"\\U0001e91f", <<"\\U0001e941">>>>,
      <<"\\U0001e920", <<"\\U0001e942">>>>, <<"\\U0001e921", <<"\\U0001e943">>>>
    >>

\* The same as a function of the character.
LowerTable ==
    [c \in {LowerPairs[i][1] : i \in 1 .. Len(LowerPairs)} |->
        LowerPairs[CHOOSE i \in 1 .. Len(LowerPairs) : LowerPairs[i][1] = c][2]]

\* str.lower() on one character: a string.
LowerChar(c) == IF c \in DOMAIN LowerTable THEN LowerTable[c] ELSE <<c>>

RECURSIVE Lower(_)
\* str.lower()
Lower(str) ==
    IF str = <<>> THEN <<>> ELSE LowerChar(Head(str)) \o Lower(Tail(str))

RECURSIVE Split(_, _)
\* The fields of str between the occurrences of the character sep.
Split(str, sep) ==
    IF \A i \in 1 .. Len(str) : str[i] # sep THEN <<str>>
    ELSE LET i == CHOOSE j \in 1 .. Len(str) :
                      str[j] = sep /\ \A k \in 1 .. j - 1 : str[k] # sep
         IN  <<SubSeq(str, 1, i - 1)>> \o Split(SubSeq(str, i + 1, Len(str)), sep)

\* What a directive of strptime makes of a field; -1 when its pattern does
\* not match the whole field.  %Y is \d\d\d\d; %m is 1[0-2]|0[1-9]|[1-9];
\* %d is 3[0-1]|[1-2]\d|0[1-9]|[1-9]| [1-9]; %b is a month name.
Directive(dir, field) ==
    CASE dir = "Y" ->
           IF Len(field) = 4 /\ AllDecimal(field) THEN Num(field) ELSE -1
      [] dir = "m" ->
           IF Len(field) \in {1, 2} /\ AllDigits(field) /\ Num(field) \in 1 .. 12
           THEN Num(field) ELSE -1
      [] dir = "d" ->
           IF Len(field) = 2 /\ field[1] \in {"1", "2"} /\ field[2] \in DecimalChars
           THEN Num(field)
           ELSE IF Len(field) \in {1, 2} /\ AllDigits(field) /\ Num(field) \in 1 .. 31
           THEN Num(field)
           ELSE IF Len(field) = 2 /\ field[1] = " " /\ field[2] \in DigitChars \ {"0"}
           THEN DigitVal(field[2]) ELSE -1
      [] dir = "b" ->
           IF \E k \in 1 .. 12 : MonthAbbr[k] = Lower(field)
           THEN CHOOSE k \in 1 .. 12 : MonthAbbr[k] = Lower(field) ELSE -1

IsLeap(y) == y % 4 = 0 /\ (y % 100 # 0 \/ y % 400 = 0)

DaysIn(y, m) ==
    IF m = 2 THEN (IF IsLeap(y) THEN 29 ELSE 28)
    ELSE IF m \in {4, 6, 9, 11} THEN 30 ELSE 31

\* Mutant of formats: the last format read as month / day / year.
formatsMonthFirst ==
    << [sep |-> "-", dirs |-> <<"Y", "m", "d">>, at |-> <<1, 2, 3>>],
       [sep |-> "-", dirs |-> <<"d", "b", "Y">>, at |-> <<3, 2, 1>>],
       [sep |-> "/", dirs |-> <<"Y", "m", "d">>, at |-> <<1, 2, 3>>],
       [sep |-> "/", dirs |-> <<"m", "d", "Y">>, at |-> <<3, 1, 2>>] >>

\* formats = ['%Y-%m-%d', '%d-%b-%Y', '%Y/%m/%d', '%d/%m/%Y']: the separator,
\* the directives in order, and where year, month and day are among them.
formats ==
    << [sep |-> "-", dirs |-> <<"Y", "m", "d">>, at |-> <<1, 2, 3>>],
       [sep |-> "-", dirs |-> <<"d", "b", "Y">>, at |-> <<3, 2, 1>>],
       [sep |-> "/", dirs |-> <<"Y", "m", "d">>, at |-> <<1, 2, 3>>],
       [sep |-> "/", dirs |-> <<"d", "m", "Y">>, at |-> <<3, 2, 1>>] >>

\* datetime.strptime(str, fmt): the date <<year, month, day>>, or ValueError
\* when the string does not match the format or names no day of the calendar
\* (datetime takes years 1 to 9999).
strptime(str, fmt) ==
    LET fields == Split(str, fmt.sep)
    IN  IF Len(fields) # 3 THEN ValueError
        ELSE LET v == [i \in 1 .. 3 |-> Directive(fmt.dirs[i], fields[i])]
                 y == v[fmt.at[1]]
                 m == v[fmt.at[2]]
                 d == v[fmt.at[3]]
             IN  IF \E i \in 1 .. 3 : v[i] = -1 THEN ValueError
                 ELSE IF y < 1 \/ d > DaysIn(y, m) THEN ValueError
                 ELSE <<y, m, d>>

RECURSIVE TryFormats(_, _)
\* The for loop of safe_date_parse: the first format that parses wins, a
\* ValueError goes on to the next, and None is returned after the last.
TryFormats(str, fmts) ==
    IF fmts = <<>> THEN None
    ELSE LET r == strptime(str, Head(fmts))
         IN  IF r # ValueError THEN r ELSE TryFormats(str, Tail(fmts))

safe_date_parse(date_str) ==
    IF date_str \in {NaN, None} \/ date_str = <<>> \/ date_str = <<"n", "u", "l", "l">>
    THEN None
    ELSE TryFormats(Strip(date_str, Whitespace), formats)

\* ----------------------------------------------------------------- records
\* Mutant of truncate_string: the value passed on whole.
truncate_none(value, max_length) ==
    IF value \in {NaN, None} THEN None ELSE value

\* truncate_string: None for a missing value, else the string, cut to its
\* first max_length characters when it is longer.
truncate_string(value, max_length) ==
    IF value \in {NaN, None} THEN None
    ELSE IF Len(value) > max_length THEN SubSeq(value, 1, max_length) ELSE value

\* A column of a loader's record: the row keys it is read by, and
\* truncate_string's max_length, or safe_date_parse for a date.
Text(keys, max_length) == [keys |-> keys, width |-> max_length, date |-> FALSE]

Date(key) == [keys |-> <<key>>, width |-> 0, date |-> TRUE]

source_id == Text(<<"sourceid", "source_id">>, 100)

\* The `record = (...)` tuple of each loader, column by column.
fields(t) ==
    CASE t = 1 ->
           << Text(<<"node_id">>, 50), Text(<<"name">>, 500),
              Text(<<"jurisdiction">>, 200), Text(<<"jurisdiction_description">>, 500),
              Text(<<"country_codes">>, 200), Text(<<"countries">>, 500),
              Date("incorporation_date"), Date("inactivation_date"),
              Date("struck_off_date"), Text(<<"status">>, 100),
              Text(<<"service_provider">>, 200), source_id,
              Text(<<"address">>, 1000), Text(<<"internal_id">>, 100) >>
      [] t = 2 ->
           << Text(<<"node_id">>, 50), Text(<<"name">>, 500),
              Text(<<"country_codes">>, 200), Text(<<"countries">>, 500),
              source_id, Text(<<"valid_until">>, 100) >>
      [] t = 3 ->
           << Text(<<"node_id">>, 50), Text(<<"name">>, 500),
              Text(<<"country_codes">>, 200), Text(<<"countries">>, 500),
              source_id, Text(<<"status">>, 100), Text(<<"internal_id">>, 100),
              Text(<<"address">>, 1000) >>
      [] t = 4 ->
           << Text(<<"node_id">>, 50), Text(<<"address", "name">>, 2000),
              Text(<<"country_codes">>, 200), Text(<<"countries">>, 500),
              source_id >>
      [] t = 5 ->
           << Text(<<"node_id_start", "start">>, 50), Text(<<"node_id_end", "end">>, 50),
              Text(<<"rel_type", "type">>, 100), source_id,
              Date("start_date"), Date("end_date") >>

\* Mutant of RowGet: no second name for a column.
RowGetFirst(row, keys) ==
    IF keys[1] \in DOMAIN row THEN row[keys[1]] ELSE None

\* row.get(k) and row.get(k1, row.get(k2)): the cell of the first key that is
\* a column of the file, None when none is.
RowGet(row, keys) ==
    IF keys[1] \in DOMAIN row THEN row[keys[1]]
    ELSE IF Len(keys) > 1 /\ keys[2] \in DOMAIN row THEN row[keys[2]]
    ELSE None

\* The record a loader builds from a row.
Record(t, row) ==
    [i \in 1 .. Len(fields(t)) |->
        IF fields(t)[i].date
        THEN safe_date_parse(RowGet(row, fields(t)[i].keys))
        ELSE truncate_string(RowGet(row, fields(t)[i].keys), fields(t)[i].width)]

\* ------------------------------------------------------------------ inputs
\* Spellings of the loader's user name (the last with the long s, a small
\* letter of Unicode whose capital is S), and other user names (one with
\* the sharp s, whose capital is SS).
LoaderUsers ==
    { <<"P", "A", "N", "A", "M", "A", "_", "P", "A", "P", "E", "R", "S">>,
      <<"p", "a", "n", "a", "m", "a", "_", "p", "a", "p", "e", "r", "s">>,
      <<"P", "a", "n", "a", "m", "a", "_", "P", "a", "p", "e", "r", "s">>,
      <<"P", "A", "N", "A", "M", "A", "_", "P", "A", "P", "E", "R", "\\u017f">> }

OtherUsers ==
    { <<"A", "D", "M", "I", "N">>,
      <<"a", "d", "m", "i", "n">>,
      <<"P", "A", "N", "A", "M", "A", "_", "P", "A", "P", "E", "R", "\\xdf">>,
      <<"P", "A", "N", "A", "M", "A", "_", "P", "A", "P", "E", "R">> }

Users == LoaderUsers \cup OtherUsers

ArgPasswords == { None, <<>>, <<"a">> }

EnvValues == { None, <<>>, <<"e">> }

EnvLines ==
    { <<KeyPrefix, "f">>,
      <<KeyPrefix, " ", "\"", "f", "\"", " ">>,
      <<KeyPrefix, "'", "f", "=", "g", "'">>,
      <<KeyPrefix>>,
      <<KeyPrefix, "\\x1f", "f", "\\xa0">>,
      <<KeyPrefix, "\\x1f">>,
      <<" ", KeyPrefix, "x">>,
      <<"OTHER=", "y">> }

\* The command lines and environments of the runs: the loader's user and
\* another, a password argument or none, the environment variable set or
\* not, a .env file that sets the key or no file.
RunUsers ==
    { PANAMA_PAPERS,
      <<"P", "A", "N", "A", "M", "A", "_", "P", "A", "P", "E", "R", "\\u017f">>,
      <<"A", "D", "M", "I", "N">> }

RunArgPasswords == { None, <<"a">> }

RunEnvValues == { None, <<"e">> }

RunEnvFiles ==
    { [exists |-> FALSE, lines |-> <<>>],
      [exists |-> TRUE, lines |-> << <<"OTHER=", "y">>, <<KeyPrefix, "f">> >>] }

EnvFiles ==
    { [exists |-> FALSE, lines |-> <<>>], [exists |-> TRUE, lines |-> <<>>] }
    \cup { [exists |-> TRUE, lines |-> <<l>>] : l \in EnvLines }
    \cup { [exists |-> TRUE, lines |-> <<l, m>>] : l, m \in EnvLines }

\* ------------------------------------------------------------------- state
\* No command of manage.py is at work on the source files.
NoFile == 0
NoJob == [kind |-> "none", todo |-> {}, open |-> NoFile, rows |-> 0]

\* There is no second process.
NoOther == [pc |-> "none"]

\* No run has started: the destination is empty and no process runs.
NoProcess ==
    /\ nrows = [f \in Files |-> NotRead]
    /\ changes = 0
    /\ job = NoJob
    /\ db = [t \in Tables |-> <<>>]
    /\ txn = [t \in Tables |-> <<>>]
    /\ pc = "idle"
    /\ cur = 1
    /\ df = NotRead
    /\ idx = 0
    /\ records = <<>>
    /\ total_loaded = 0
    /\ errors = 0
    /\ final = FALSE
    /\ stats = [t \in Tables |-> NoStat]
    /\ raisedBy = "none"
    /\ summary = FALSE
    /\ warned = FALSE
    /\ runs = 0
    /\ interrupted = FALSE
    /\ dropped = FALSE
    /\ decision = [t \in Tables |-> "none"]
    /\ order = <<>>
    /\ calls = <<>>
    /\ failed = {}
    /\ via = "none"
    /\ password = None
    /\ errmsg = "none"
    /\ opened = 0
    /\ closed = 0
    /\ complete_msg = FALSE
    /\ printed = <<>>
    /\ other = NoOther

\* No function is being checked by itself.
NoCall == <<>>

Init ==
    /\ NoProcess
    /\ fn = "none"
    /\ input = NoCall
    /\ output = NoCall

\* main() up to the check of the password, for command line a: the password
\* chain reads the environment variable and the .env file.
Startup(a) ==
    /\ runs' = runs + 1
    /\ \E env \in RunEnvValues, envFile \in RunEnvFiles :
          password' = ResolvePassword(a, env, envFile)
    /\ pc' = AfterPassword(password')
    /\ errmsg' = IF Falsy(password') THEN "password" ELSE "none"
    /\ UNCHANGED <<nrows, changes, job, db, txn, interrupted, dropped, mainVars, loaderVars,
                   opened, closed, complete_msg, printed>>
    /\ UNCHANGED <<callVars, other>>

\* The ingestion script is started from a shell, with any --user and
\* --password.
StartCli ==
    /\ pc = "idle"
    /\ runs < MaxRuns
    /\ via' = "cli"
    /\ \E u \in RunUsers, p \in RunArgPasswords :
          Startup([user |-> u, password |-> p])

\* manage.py data_ingest, its check: with no CSV file of any name in the
\* data directory it prints an error and starts nothing; with one it goes
\* on to start the script.
StartManage ==
    /\ pc = "idle"
    /\ runs < MaxManageRuns
    /\ \E f \in Files : nrows[f] # Missing
    /\ pc' = "start"
    /\ via' = "manage"
    /\ UNCHANGED <<nrows, changes, job, db, txn, past, mainVars, loaderVars,
                   password, errmsg, opened, closed, complete_msg, printed>>
    /\ UNCHANGED <<callVars, other>>

\* manage.py data_ingest, its run_command: the script is started with
\* --data-dir, --wallet-dir and --service only, so --user has its default and
\* --password is None, whatever has become of the CSV files since the check.
RunCommand ==
    /\ pc = "start"
    /\ via' = via
    /\ Startup([user |-> PANAMA_PAPERS, password |-> None])

\* The wallet password file and the check of it; DB_CONFIG takes the
\* password, which nothing modelled reads after this.
ReadWallet ==
    /\ pc = "wallet"
    /\ \E exists \in BOOLEAN :
          /\ pc' = AfterWallet(exists)
          /\ errmsg' = IF exists THEN "none" ELSE "wallet"
    /\ password' = None
    /\ UNCHANGED <<nrows, changes, job, db, txn, past, mainVars, loaderVars,
                   via, opened, closed, complete_msg, printed>>
    /\ UNCHANGED <<callVars, other>>

\* connection = get_connection() succeeds; stats = {}; the try block begins.
Connect ==
    /\ pc = "connect"
    /\ opened' = opened + 1
    /\ pc' = "guard"
    /\ UNCHANGED <<nrows, changes, job, db, txn, past, mainVars, loaderVars,
                   via, password, errmsg, closed, complete_msg, printed>>
    /\ UNCHANGED <<callVars, other>>

\* get_connection() raises: the call is before the try block, so nothing
\* catches the exception and no finally clause runs.
ConnectFail ==
    /\ pc = "connect"
    /\ raisedBy' = "connect"
    /\ pc' = "exit"
    /\ UNCHANGED <<nrows, changes, job, db, txn, past, cur, stats, summary, warned, decision, order,
                   loaderVars, procVars>>
    /\ UNCHANGED <<callVars, other>>

\* After table t: the next table's guard, or the summary after the last.
AfterTable(t) ==
    IF t = Len(TableOrder)
    THEN pc' = "summary" /\ cur' = t
    ELSE pc' = "guard" /\ cur' = NextTable(t)

\* `if table_count(t) > 0:` is true: the first SELECT COUNT(*) of the guard
\* found rows, and the branch that skips the table is entered.
GuardTest ==
    /\ pc = "guard"
    /\ HasData(cur)
    /\ pc' = "skip"
    /\ UNCHANGED procVars
    /\ UNCHANGED <<nrows, changes, job, db, txn, past, cur, stats, raisedBy, summary, warned,
                   decision, order, loaderVars>>
    /\ UNCHANGED <<callVars, other>>

\* `stats[t] = table_count(t)` and the message: a second SELECT COUNT(*),
\* whose result is the one stored; the table is skipped.
GuardSkip ==
    /\ pc = "skip"
    /\ stats' = [stats EXCEPT ![cur] = table_count(cur)]
    /\ decision' = [decision EXCEPT ![cur] = "skip"]
    /\ order' = Append(order, cur)
    /\ AfterTable(cur)
    /\ UNCHANGED procVars
    /\ UNCHANGED <<nrows, changes, job, db, txn, past, raisedBy, summary, warned, loaderVars>>
    /\ UNCHANGED <<callVars, other>>

\* `else: stats[t] = load_<t>(connection, path)`: the loader is called.
GuardLoad ==
    /\ pc = "guard"
    /\ ~HasData(cur)
    /\ decision' = [decision EXCEPT ![cur] = "load"]
    /\ order' = Append(order, cur)
    /\ pc' = "read"
    /\ UNCHANGED procVars
    /\ UNCHANGED <<nrows, changes, job, db, txn, past, cur, stats, raisedBy, summary, warned,
                   loaderVars>>
    /\ UNCHANGED <<callVars, other>>

\* table_count raises: the SELECT COUNT(*) of the guard, or the second one of
\* the branch that skips, fails with a database error.  Nothing in main
\* catches it: no count is stored, no loader is called, and the exception
\* goes to the finally clause.
CountFail ==
    /\ pc \in {"guard", "skip"}
    /\ raisedBy' = "count"
    /\ pc' = RaisePc
    /\ UNCHANGED procVars
    /\ UNCHANGED <<nrows, changes, job, db, txn, past, cur, stats, summary, warned, decision,
                   order, loaderVars>>
    /\ UNCHANGED <<callVars, other>>

\* df = pd.read_csv(path) succeeds; records = [], total_loaded = 0,
\* errors = [].  The file is read as it is at this moment: its row count is
\* fixed by the first read of it, until a command replaces or removes the
\* file; of a file that extractall is writing, the rows written so far are
\* read.  The DataFrame keeps the rows read.
ReadCsv ==
    /\ pc = "read"
    /\ nrows[cur] # Missing
    /\ CASE job.open = cur ->
               /\ nrows' = nrows
               /\ \E n \in 0 .. job.rows : df' = n
         [] job.open # cur /\ nrows[cur] = NotRead ->
               /\ \E n \in 0 .. MaxRows : nrows' = [nrows EXCEPT ![cur] = n]
               /\ df' = nrows'[cur]
         [] OTHER ->
               /\ nrows' = nrows
               /\ df' = nrows[cur]
    /\ changes' = changes
    /\ job' = job
    /\ idx' = 0
    /\ records' = <<>>
    /\ total_loaded' = 0
    /\ errors' = 0
    /\ final' = FALSE
    /\ calls' = <<>>
    /\ failed' = {}
    /\ pc' = "loop"
    /\ UNCHANGED procVars
    /\ UNCHANGED <<db, txn, past, mainVars>>
    /\ UNCHANGED <<callVars, other>>

\* pd.read_csv raises (the file is missing or unreadable): no handler in the
\* loader, the exception reaches main.
ReadFail ==
    /\ pc = "read"
    /\ raisedBy' = "read"
    /\ pc' = RaisePc
    /\ UNCHANGED procVars
    /\ UNCHANGED <<nrows, changes, job, db, txn, past, cur, stats, summary, warned, decision, order,
                   loaderVars>>
    /\ UNCHANGED <<callVars, other>>

\* One iteration of `for idx, row in df.iterrows()`: the row's tuple is
\* appended, and a full batch goes to the flush inside the loop.
LoopRow ==
    /\ pc = "loop"
    /\ idx < df
    /\ idx' = idx + 1
    /\ records' = Append(records, idx + 1)
    /\ pc' = IF BatchFull(records') THEN "exec" ELSE "loop"
    /\ UNCHANGED procVars
    /\ UNCHANGED <<nrows, changes, job, db, txn, past, mainVars, df, total_loaded, errors, final,
                   calls, failed>>
    /\ UNCHANGED <<callVars, other>>

\* The loop is over: `if records:` flushes the remainder, else the loader
\* goes on to return.
LoopEnd ==
    /\ pc = "loop"
    /\ idx = df
    /\ IF records # <<>>
       THEN pc' = "exec" /\ final' = TRUE
       ELSE pc' = "ret" /\ final' = final
    /\ UNCHANGED procVars
    /\ UNCHANGED <<nrows, changes, job, db, txn, past, mainVars, df, idx, records, total_loaded, errors,
                   calls, failed>>
    /\ UNCHANGED <<callVars, other>>

\* Where the loader goes after a write failed: the except block of
\* load_entities, or out of the loader.
WriteFailed ==
    IF CatchesBatchError(cur)
    THEN /\ errors' = errors + 1
         /\ pc' = "rollback"
         /\ raisedBy' = raisedBy
    ELSE /\ errors' = errors
         /\ pc' = RaisePc
         /\ raisedBy' = "write"

\* cursor.executemany(insert_sql, records) succeeds: every row of the batch
\* is inserted in the session's transaction.
ExecMany ==
    /\ pc = "exec"
    /\ calls' = Append(calls, records)
    /\ txn' = [txn EXCEPT ![cur] = @ \o records]
    /\ pc' = "commit"
    /\ UNCHANGED procVars
    /\ UNCHANGED <<nrows, changes, job, db, past, mainVars, df, idx, records, total_loaded, errors, final,
                   failed>>
    /\ UNCHANGED <<callVars, other>>

\* cursor.executemany raises oracledb.Error at row k + 1 of the batch: the
\* k rows before it stay inserted in the session's transaction.
ExecManyFail ==
    /\ pc = "exec"
    /\ \E k \in 0 .. Len(records) - 1 :
         txn' = [txn EXCEPT ![cur] = @ \o SubSeq(records, 1, k)]
    /\ calls' = Append(calls, records)
    /\ failed' = failed \cup {Len(calls) + 1}
    /\ WriteFailed
    /\ UNCHANGED procVars
    /\ UNCHANGED <<nrows, changes, job, db, past, cur, stats, summary, warned, decision, order, df, idx,
                   records, total_loaded, final>>
    /\ UNCHANGED <<callVars, other>>

\* Mutant of AfterFlush: the flush without its `records = []`.
AfterFlushKeep == pc' = (IF final THEN "ret" ELSE "loop") /\ records' = records

\* Mutant of AfterFlush: the batch is handed to executemany again.
AfterFlushRetry == pc' = "exec" /\ records' = records

\* After a flush: inside the loop `records = []` and the loop goes on; after
\* the loop the loader goes on to return.
AfterFlush ==
    IF final
    THEN pc' = "ret" /\ records' = records
    ELSE pc' = "loop" /\ records' = <<>>

\* connection.commit() succeeds; total_loaded += len(records).
CommitOk ==
    /\ pc = "commit"
    /\ db' = Commit(db, txn)
    /\ txn' = [t \in Tables |-> <<>>]
    /\ total_loaded' = CountLoaded(total_loaded, records)
    /\ AfterFlush
    /\ UNCHANGED procVars
    /\ UNCHANGED <<nrows, changes, job, past, mainVars, df, idx, errors, final, calls, failed>>
    /\ UNCHANGED <<callVars, other>>

\* connection.commit() raises oracledb.Error: nothing is committed.
CommitFail ==
    /\ pc = "commit"
    /\ failed' = failed \cup {Len(calls)}
    /\ WriteFailed
    /\ UNCHANGED procVars
    /\ UNCHANGED <<nrows, changes, job, db, txn, past, cur, stats, summary, warned, decision, order,
                   df, idx, records, total_loaded, final, calls>>
    /\ UNCHANGED <<callVars, other>>

\* The except block of load_entities: errors.append(...) was counted when
\* the write failed; connection.rollback() returns, then the code after the
\* block.
RollbackBatch ==
    /\ pc = "rollback"
    /\ txn' = Rollback(txn)
    /\ AfterFlush
    /\ UNCHANGED procVars
    /\ UNCHANGED <<nrows, changes, job, db, past, mainVars, df, idx, total_loaded, errors, final, calls,
                   failed>>
    /\ UNCHANGED <<callVars, other>>

\* connection.rollback() of the except block raises: the call is not inside
\* a try of its own, so the exception leaves load_entities; the statements
\* after the block are not reached and no later batch is attempted.  What
\* the session has inserted stays uncommitted.
RollbackFail ==
    /\ pc = "rollback"
    /\ raisedBy' = "rollback"
    /\ pc' = RaisePc
    /\ UNCHANGED procVars
    /\ UNCHANGED <<nrows, changes, job, db, txn, past, cur, stats, summary, warned, decision,
                   order, loaderVars>>
    /\ UNCHANGED <<callVars, other>>

\* The loader's frame is gone: its locals, and what the model records of
\* its calls, are back to their initial values.
LoaderGone ==
    /\ df' = NotRead
    /\ idx' = 0
    /\ records' = <<>>
    /\ total_loaded' = 0
    /\ errors' = 0
    /\ final' = FALSE
    /\ calls' = <<>>
    /\ failed' = {}

\* main's frame is gone: its stats, its place in the table order, and what
\* the model records of its guards, are back to their initial values.
MainGone ==
    /\ LoaderGone
    /\ cur' = 1
    /\ stats' = [t \in Tables |-> NoStat]
    /\ decision' = [t \in Tables |-> "none"]
    /\ order' = <<>>

\* The process is gone: so is all that is recorded of it.
ProcessGone ==
    /\ MainGone
    /\ pc' = "idle"
    /\ raisedBy' = "none"
    /\ summary' = FALSE
    /\ warned' = FALSE
    /\ via' = "none"
    /\ password' = None
    /\ errmsg' = "none"
    /\ opened' = 0
    /\ closed' = 0
    /\ complete_msg' = FALSE
    /\ printed' = <<>>

\* cursor.close(); `if errors:` prints the warning; return total_loaded;
\* main stores it in stats.
LoaderReturn ==
    /\ pc = "ret"
    /\ stats' = [stats EXCEPT ![cur] = total_loaded]
    /\ warned' = (warned \/ errors > 0)
    /\ AfterTable(cur)
    /\ LoaderGone
    /\ UNCHANGED procVars
    /\ UNCHANGED <<nrows, changes, job, db, txn, past, raisedBy, summary, decision, order>>
    /\ UNCHANGED <<callVars, other>>

\* The 'Ingestion Complete' block: per-table counts and the total.
PrintSummary ==
    /\ pc = "summary"
    /\ summary' = TRUE
    /\ printed' = Append(stats, Sum(stats))
    /\ pc' = "close"
    /\ UNCHANGED <<via, password, errmsg, opened, closed, complete_msg>>
    /\ UNCHANGED <<nrows, changes, job, db, txn, past, cur, stats, raisedBy, warned, decision, order,
                   loaderVars>>
    /\ UNCHANGED <<callVars, other>>

\* `finally: connection.close()` returns: closing the connection rolls back
\* what the session has not committed; main returns, or the exception leaves
\* it, and main's frame is gone.
CloseConnection ==
    /\ pc = "close"
    /\ txn' = [t \in Tables |-> <<>>]
    /\ closed' = closed + 1
    /\ pc' = "exit"
    /\ MainGone
    /\ UNCHANGED <<nrows, changes, job, db, past, raisedBy, summary, warned,
                   via, password, errmsg, opened, complete_msg, printed>>
    /\ UNCHANGED <<callVars, other>>

\* connection.close() of the finally clause raises: the script has not
\* closed the session, 'Connection closed.' is not printed, and the
\* exception, in the place of any that was on its way, leaves main: the
\* process ends with status 1, after the summary when the run had completed.
\* The session dies with the process, and the server rolls back what it had
\* not committed.
CloseFail ==
    /\ pc = "close"
    /\ raisedBy' = "close"
    /\ txn' = [t \in Tables |-> <<>>]
    /\ pc' = "exit"
    /\ MainGone
    /\ UNCHANGED <<nrows, changes, job, db, past, summary, warned,
                   via, password, errmsg, opened, closed, complete_msg, printed>>
    /\ UNCHANGED <<callVars, other>>

\* run_command of manage.py: subprocess.run(check=True) returns when the
\* script exits with status 0 and data_ingest prints 'Data ingestion
\* complete!'; any other status raises CalledProcessError.
ManageReport ==
    /\ pc = "exit"
    /\ via = "manage"
    /\ complete_msg' = (ExitStatus = 0)
    /\ pc' = "reported"
    /\ UNCHANGED <<nrows, changes, job, db, txn, past, mainVars, loaderVars,
                   via, password, errmsg, opened, closed, printed>>
    /\ UNCHANGED <<callVars, other>>

\* manage.py data_download in another terminal, the archive present and
\* 'Re-download?' answered yes, or absent: the archive is fetched, its CSV
\* files of one size, and extractall is about to write its members,
\* whatever a run of the script is doing.
DataDownload ==
    /\ changes < MaxChanges
    /\ job = NoJob
    /\ changes' = changes + 1
    /\ \E n \in 0 .. MaxManageRows :
          job' = [kind |-> "extract", todo |-> Files, open |-> NoFile, rows |-> n]
    /\ UNCHANGED <<nrows, db, txn, pc, past, mainVars, loaderVars, procVars>>
    /\ UNCHANGED <<callVars, other>>

\* extractall opens the next member's file for writing: a reader now finds
\* what has been written of it so far.  The members are written in the order
\* of the archive's directory, which nothing in the program fixes: any file
\* not yet written can be the next.
OpenMember ==
    /\ job.kind = "extract"
    /\ job.open = NoFile
    /\ \E f \in job.todo :
          /\ nrows' = [nrows EXCEPT ![f] = NotRead]
          /\ job' = [job EXCEPT !.open = f]
    /\ UNCHANGED <<changes, db, txn, pc, past, mainVars, loaderVars, procVars>>
    /\ UNCHANGED <<callVars, other>>

\* extractall has written the member: the file is whole.
WriteMember ==
    /\ job.kind = "extract"
    /\ job.open # NoFile
    /\ nrows' = [nrows EXCEPT ![job.open] = IF job.open = OtherCsv THEN NotRead ELSE job.rows]
    /\ job' = IF job.todo = {job.open} THEN NoJob
              ELSE [job EXCEPT !.todo = @ \ {job.open}, !.open = NoFile]
    /\ UNCHANGED <<changes, db, txn, pc, past, mainVars, loaderVars, procVars>>
    /\ UNCHANGED <<callVars, other>>

\* manage.py full_clean in another terminal, both questions answered yes:
\* shutil.rmtree is about to remove the data directory, whatever a run of
\* the script is doing.
FullClean ==
    /\ changes < MaxChanges
    /\ job = NoJob
    /\ changes' = changes + 1
    /\ job' = [kind |-> "remove", todo |-> Files, open |-> NoFile, rows |-> 0]
    /\ UNCHANGED <<nrows, db, txn, pc, past, mainVars, loaderVars, procVars>>
    /\ UNCHANGED <<callVars, other>>

\* shutil.rmtree removes the next file, in the order the directory lists
\* them; after the last one the directory is made again, empty.
RemoveFile ==
    /\ job.kind = "remove"
    /\ \E f \in job.todo :
          /\ nrows' = [nrows EXCEPT ![f] = Missing]
          /\ job' = IF job.todo = {f} THEN NoJob ELSE [job EXCEPT !.todo = @ \ {f}]
    /\ UNCHANGED <<changes, db, txn, pc, past, mainVars, loaderVars, procVars>>
    /\ UNCHANGED <<callVars, other>>

\* The run is over.  What later runs can depend on is kept: whether this run
\* stopped before its summary, and whether it dropped entities batches.
ProcessExit ==
    /\ \/ pc = "exit" /\ via = "cli"
       \/ pc = "reported"
    /\ interrupted' = (interrupted \/ ~summary)
    /\ dropped' = (dropped \/ warned)
    /\ ProcessGone
    /\ UNCHANGED <<nrows, changes, job, db, txn, runs>>
    /\ UNCHANGED <<callVars, other>>

\* The process is killed: nothing more of the script runs, and the server
\* rolls back the dead session's transaction.
Kill ==
    /\ pc \notin {"idle", "start"}
    /\ txn' = [t \in Tables |-> <<>>]
    /\ interrupted' = TRUE
    /\ dropped' = (dropped \/ warned \/ errors > 0)
    /\ ProcessGone
    /\ UNCHANGED <<nrows, changes, job, db, runs>>
    /\ UNCHANGED <<callVars, other>>

\* The steps of the script after its start, and the kill.
Script ==
    \/ ReadWallet
    \/ Connect
    \/ ConnectFail
    \/ GuardTest
    \/ GuardSkip
    \/ GuardLoad
    \/ CountFail
    \/ ReadCsv
    \/ ReadFail
    \/ LoopRow
    \/ LoopEnd
    \/ ExecMany
    \/ ExecManyFail
    \/ CommitOk
    \/ CommitFail
    \/ RollbackBatch
    \/ RollbackFail
    \/ LoaderReturn
    \/ PrintSummary
    \/ CloseConnection
    \/ CloseFail
    \/ Kill

\* Runs of the ingestion script started from a shell.
Next ==
    \/ StartCli
    \/ Script
    \/ ProcessExit

\* Runs of the ingestion script started by `manage.py data ingest`, and
\* at any moment the commands of manage.py that replace or remove the
\* source files.
NextManage ==
    \/ StartManage
    \/ Script
    \/ ManageReport
    \/ ProcessExit
    \/ RunCommand
    \/ DataDownload
    \/ OpenMember
    \/ WriteMember
    \/ FullClean
    \/ RemoveFile

Spec == Init /\ [][Next]_vars

\* Before the first command.  The data directory: the archive extracted,
\* its CSV files of one size; only its CSV file that no loader reads left
\* there; or no CSV file.  The destination: empty, or as a complete
\* ingestion of files of some size left it.
InitManage ==
    /\ pc = "idle"
    /\ runs = 0
    /\ \E m \in 0 .. MaxManageRows : db = [t \in Tables |-> Iota(m)]
    /\ txn = [t \in Tables |-> <<>>]
    /\ \E n \in 0 .. MaxManageRows :
          nrows \in { [f \in Files |-> IF f = OtherCsv THEN NotRead ELSE n],
                      [f \in Files |-> IF f = OtherCsv THEN NotRead ELSE Missing],
                      [f \in Files |-> Missing] }
    /\ changes = 0
    /\ job = NoJob
    /\ interrupted = FALSE
    /\ dropped = FALSE
    /\ cur = 1
    /\ stats = [t \in Tables |-> NoStat]
    /\ raisedBy = "none"
    /\ summary = FALSE
    /\ warned = FALSE
    /\ decision = [t \in Tables |-> "none"]
    /\ order = <<>>
    /\ df = NotRead
    /\ idx = 0
    /\ records = <<>>
    /\ total_loaded = 0
    /\ errors = 0
    /\ final = FALSE
    /\ calls = <<>>
    /\ failed = {}
    /\ via = "none"
    /\ password = None
    /\ errmsg = "none"
    /\ opened = 0
    /\ closed = 0
    /\ complete_msg = FALSE
    /\ printed = <<>>
    /\ other = NoOther
    /\ fn = "none"
    /\ input = NoCall
    /\ output = NoCall

SpecManage == InitManage /\ [][NextManage]_vars

\* ------------------------------------------------- the password chain alone
\* A command line and an environment of the script.
CredInputs ==
    [user : Users, password : ArgPasswords, env : EnvValues, envFile : EnvFiles]

InitCreds ==
    /\ NoProcess
    /\ fn = "none"
    /\ input \in CredInputs
    /\ output = NoCall

\* The password chain of main and the check after it, on input.
CallPasswordChain ==
    /\ fn = "none"
    /\ fn' = "password"
    /\ LET pw == ResolvePassword(input, input.env, input.envFile)
       IN output' = [password |-> pw, next |-> AfterPassword(pw)]
    /\ UNCHANGED <<input, nrows, changes, job, db, txn, pc, past, mainVars, loaderVars, procVars, other>>

SpecCreds == InitCreds /\ [][CallPasswordChain]_vars

\* ------------------------------------------------- safe_date_parse alone
\* str() of one digit, and of a number in two and in four digits.
Digit(n) ==
    CASE n = 0 -> "0" [] n = 1 -> "1" [] n = 2 -> "2" [] n = 3 -> "3" [] n = 4 -> "4"
      [] n = 5 -> "5" [] n = 6 -> "6" [] n = 7 -> "7" [] n = 8 -> "8" [] n = 9 -> "9"

Pad2(n) == <<Digit(n \div 10), Digit(n % 10)>>

Pad4(n) == Pad2(n \div 100) \o Pad2(n % 100)

\* A day or month number as a CSV file may write it: "04" or "4".
NumText(n, padded) == IF padded \/ n >= 10 THEN Pad2(n) ELSE <<Digit(n)>>

\* How a CSV file may write a day number under 10: "03", "3" or " 3".
DayStyles == {"padded", "bare", "blank"}

\* A day number as a CSV file may write it.
DayText(n, style) ==
    IF style = "blank" /\ n < 10 THEN <<" ", Digit(n)>> ELSE NumText(n, style # "bare")

\* How a CSV file may write a month by name: "Apr", "apr", "APR" or "aPR".
MonthCases == {"title", "lower", "upper", "mixed"}

\* A month as a CSV file may write it by name.
MonthText(m, case) ==
    LET name == IF m \in 1 .. 12 THEN MonthAbbr[m] ELSE <<"x", "y", "z">>
        caps == Upper(name)
    IN  CASE case = "lower" -> name
          [] case = "upper" -> caps
          [] case = "mixed" -> <<name[1], caps[2], caps[3]>>
          [] OTHER -> <<caps[1], name[2], name[3]>>

\* The day d = <<year, month, day>> written in the k-th of the four layouts
\* YYYY-MM-DD, DD-Mon-YYYY, YYYY/MM/DD, DD/MM/YYYY, the month's number
\* written bare when the day's is.
DateText(d, k, style, case) ==
    LET y == Pad4(d[1])
        m == NumText(d[2], style # "bare")
        dd == DayText(d[3], style)
    IN  CASE k = 1 -> y \o <<"-">> \o m \o <<"-">> \o dd
          [] k = 2 -> dd \o <<"-">> \o MonthText(d[2], case) \o <<"-">> \o y
          [] k = 3 -> y \o <<"/">> \o m \o <<"/">> \o dd
          [] k = 4 -> dd \o <<"/">> \o m \o <<"/">> \o y

\* Days of the calendar, and triples that name no day.
ValidDates ==
    { <<2016, 4, 3>>, <<2016, 2, 29>>, <<2000, 2, 29>>, <<2016, 12, 31>>,
      <<2016, 10, 11>>, <<1, 1, 1>>, <<9999, 12, 31>> }

InvalidDates ==
    { <<2015, 2, 29>>, <<2100, 2, 29>>, <<2016, 4, 31>>, <<2016, 13, 1>>,
      <<2016, 0, 10>>, <<2016, 4, 0>>, <<2016, 4, 32>>, <<0, 4, 3>> }

NoDate == <<0, 0, 0>>

\* Scripts other than ASCII a text has digits of: Arabic-Indic, Devanagari,
\* full-width, mathematical bold.
WideBlocks == {2, 5, 37, 58}

\* The digit of script b for an ASCII digit.
Wide(c, b) == DigitBlocks[b][DigitVal(c) + 1]

WideAll(str, b) == [i \in 1 .. Len(str) |-> Wide(str[i], b)]

\* Where a text has digits of another script: the year, the month, the
\* first or the second digit of the day.
WidePlaces == {"year", "month", "day1", "day2"}

\* The day d written in the k-th layout, all numbers padded, with the
\* digits of one place in script b.
WideDateText(d, k, place, b) ==
    LET y == IF place = "year" THEN WideAll(Pad4(d[1]), b) ELSE Pad4(d[1])
        m == IF k = 2 THEN MonthText(d[2], "title")
             ELSE IF place = "month" THEN WideAll(Pad2(d[2]), b) ELSE Pad2(d[2])
        dd == CASE place = "day1" -> <<Wide(Pad2(d[3])[1], b), Pad2(d[3])[2]>>
                [] place = "day2" -> <<Pad2(d[3])[1], Wide(Pad2(d[3])[2], b)>>
                [] OTHER -> Pad2(d[3])
    IN  CASE k = 1 -> y \o <<"-">> \o m \o <<"-">> \o dd
          [] k = 2 -> dd \o <<"-">> \o m \o <<"-">> \o y
          [] k = 3 -> y \o <<"/">> \o m \o <<"/">> \o dd
          [] k = 4 -> dd \o <<"/">> \o m \o <<"/">> \o y

\* Blanks around a cell's text: a quoted cell of a CSV file can hold a line
\* break.
Paddings == { <<>>, <<" ">>, <<"\n">>, <<"\r", "\n">>, <<"\\x0b">>, <<"\\xa0", "\f">> }

\* Cells that are in none of the four layouts.
OtherTexts ==
    { NaN, <<>>, <<"n", "u", "l", "l">>,
      <<"n", "u", "l", "l", " ">>,
      <<"N", "U", "L", "L">>,
      <<" ">>,
      <<"g", "a", "r", "b", "a", "g", "e">>,
      <<"2", "0", "1", "6", "-", "0", "4", "-", "0", "3", "T", "0", "0", ":", "0", "0">>,
      <<"2", "0", "1", "6", "-", "0", "4">>,
      <<"0", "3", "/", "0", "4", "/", "1", "6">>,
      <<"2", "0", "1", "6", ".", "0", "4", ".", "0", "3">>,
      <<"2", "0", "1", "6", "0", "4", "0", "3">>,
      <<"2", "0", "1", "6", "-", "0", "4", "-", "0", "3", "-">>,
      <<"2", "0", "1", "6", "/", "0", "4", "-", "0", "3">>,
      <<"0", "3", "-", "A", "p", "r", "i", "l", "-", "2", "0", "1", "6">>,
      <<"0", "4", "-", "2", "0", "1", "6", "-", "0", "3">>,
      <<"2", "0", "1", "6", "-", "0", "0", "4", "-", "0", "3">>,
      <<"2", "0", "1", "6", "-", "0", "4", "-", "0", "0", "3">>,
      <<"-", "2", "0", "1", "6", "-", "0", "4", "-", "0", "3">>,
      <<"2", "0", "1", "6", "-", "0", "4", "-", "\n", "3">>,
      <<"2", "0", "1", "6", "-", "0", "4", "-", " ", " ", "3">>,
      <<"2", "0", "1", "6", "-", "0", "4", "-", " ", "0", "3">>,
      <<"2", "0", "1", "6", "-", "0", "4", "-", " ", "1", "3">>,
      <<"2", "0", "1", "6", "-", " ", "4", "-", "0", "3">>,
      <<"0", "3", "/", " ", "4", "/", "2", "0", "1", "6">>,
      <<"0", "3", "-", " ", "A", "p", "r", "-", "2", "0", "1", "6">>,
      <<"0", "3", "-", "A", "p", "r", "-", " ", "2", "0", "1", "6">>,
      <<" ", "2", "0", "1", "6", "-", "0", "4", "-", "0", "3", "x">>,
      <<"2", "0", "1", "6", "\n", "-", "0", "4", "-", "0", "3">>,
      <<"\n">>,
      <<"\\xa0", "n", "u", "l", "l">> }

\* The cells safe_date_parse is applied to: text is the argument; date and k
\* say which day in which layout the text was written from (k = 0: none).
DateInputs ==
    { [text |-> l \o DateText(d, k, style, "title") \o r, date |-> d, k |-> k,
       wide |-> "none"] :
          d \in ValidDates \cup InvalidDates, k \in 1 .. 4,
          style \in DayStyles, l \in Paddings, r \in Paddings }
    \cup { [text |-> l \o DateText(d, 2, style, case) \o r, date |-> d, k |-> 2,
            wide |-> "none"] :
              d \in ValidDates \cup InvalidDates, style \in DayStyles,
              case \in MonthCases, l \in Paddings, r \in Paddings }
    \cup { [text |-> WideDateText(d, k, place, b), date |-> d, k |-> k,
            wide |-> IF k = 2 /\ place = "month" THEN "none" ELSE place] :
              d \in ValidDates \cup InvalidDates, k \in 1 .. 4, place \in WidePlaces,
              b \in WideBlocks }
    \cup { [text |-> t, date |-> NoDate, k |-> 0, wide |-> "none"] : t \in OtherTexts }

InitDate ==
    /\ NoProcess
    /\ fn = "none"
    /\ input \in DateInputs
    /\ output = NoCall

\* safe_date_parse(input.text)
CallDateParse ==
    /\ fn = "none"
    /\ fn' = "safe_date_parse"
    /\ output' = safe_date_parse(input.text)
    /\ UNCHANGED <<input, nrows, changes, job, db, txn, pc, past, mainVars, loaderVars, procVars, other>>

SpecDate == InitDate /\ [][CallDateParse]_vars

\* ------------------------------------------------- one row of a file alone
\* The first key of every column of table t, and the keys of its columns
\* that have two.
FirstKeys(t) == { fields(t)[i].keys[1] : i \in 1 .. Len(fields(t)) }

AliasKeys(t) ==
    UNION { { fields(t)[i].keys[1], fields(t)[i].keys[2] } :
              i \in { j \in 1 .. Len(fields(t)) : Len(fields(t)[j].keys) > 1 } }

\* A cell of n characters, no two neighbours alike.
Value(n, phase) == [i \in 1 .. n |-> Digit((i + phase) % 10)]

\* Lengths at and around every max_length of the loaders.
CellLengths ==
    {0, 1} \cup UNION { {w - 1, w, w + 1} : w \in {50, 100, 200, 500, 1000, 2000} }

\* A short cell that tells which column of the file it is from.
CellOf(column) == <<"=", column>>

\* Rows of a file of table t that has a column for every first key: every
\* cell n characters long, or every cell missing.
WideRows(t) ==
    { [table |-> t, cells |-> [c \in FirstKeys(t) |-> Value(n, phase)]] :
          n \in CellLengths, phase \in 0 .. 1 }
    \cup { [table |-> t, cells |-> [c \in FirstKeys(t) |-> NaN]] }

\* Rows of files of table t whose header has any of the names of the
\* columns with two keys; the cells under the first names may be empty.
AliasRows(t) ==
    { [table |-> t,
       cells |-> [c \in (FirstKeys(t) \ AliasKeys(t)) \cup h |->
                    IF blank /\ c \in FirstKeys(t) \cap AliasKeys(t)
                    THEN NaN ELSE CellOf(c)]] :
          h \in SUBSET AliasKeys(t), blank \in BOOLEAN }

InitRecord ==
    /\ NoProcess
    /\ fn = "none"
    /\ \E t \in Tables : input \in WideRows(t) \cup AliasRows(t)
    /\ output = NoCall

\* `record = (...)` of the loader of input.table, on the row input.cells.
CallRecord ==
    /\ fn = "none"
    /\ fn' = "record"
    /\ output' = Record(input.table, input.cells)
    /\ UNCHANGED <<input, nrows, changes, job, db, txn, pc, past, mainVars, loaderVars, procVars, other>>

SpecRecord == InitRecord /\ [][CallRecord]_vars

\* ------------------------------------------------- vocabulary of the claims
\* ceil(n / BATCH_SIZE).
NumBatches(n) == (n + BATCH_SIZE - 1) \div BATCH_SIZE

\* The source rows of the b-th batch of a file of n rows.
BatchRows(n, b) == {i \in 1 .. n : (b - 1) * BATCH_SIZE < i /\ i <= b * BATCH_SIZE}

\* The elements of a sequence.
Range(s) == {s[i] : i \in 1 .. Len(s)}

NoDup(s) == \A i, j \in 1 .. Len(s) : i # j => s[i] # s[j]

IsPrefix(s, t) == Len(s) <= Len(t) /\ SubSeq(t, 1, Len(s)) = s

RECURSIVE ConcatGood(_, _, _)
\* The first k batches of cs, those in bad left out, one after the other.
ConcatGood(cs, bad, k) ==
    IF k = 0 THEN <<>>
    ELSE ConcatGood(cs, bad, k - 1) \o (IF k \in bad THEN <<>> ELSE cs[k])

\* Table t holds exactly the rows of its source file, once each, in order.
Full(t) == nrows[t] # NotRead /\ db[t] = Iota(nrows[t])

\* The script has ended, and the process with it or soon.
Ended == pc \in {"exit", "reported"}

\* The process is inside the loader of table cur.
InLoader == pc \in {"loop", "exec", "commit", "rollback", "ret"}

\* The batch handed to executemany and neither committed nor failed yet.
InFlight == IF pc = "commit" THEN {Len(calls)} ELSE {}

\* The run is completing: every table was loaded or skipped and the summary printed.
Completing == pc = "close" /\ raisedBy = "none"

\* ---------------------------------------------------------------------- C1
\* C1: after a run that was killed or aborted, once a re-run completes, every
\* table contains every row of its source file.  Stated for the histories in
\* which no entities batch was dropped, so that what is lost is lost to the
\* interruption alone.
C1_NothingLostAfterResume ==
    (Completing /\ interrupted /\ ~dropped /\ ~warned) => \A t \in Tables : Full(t)

\* ---------------------------------------------------------------------- C2
\* C2: over any sequence of complete, aborted or killed runs no table holds
\* the same source row twice (and holds only rows of its source file).
C2_NoDuplicates ==
    \A t \in Tables :
        /\ NoDup(db[t])
        /\ db[t] # <<>> => (nrows[t] # NotRead /\ Range(db[t]) \subseteq 1 .. nrows[t])

\* A re-run after an interruption completes, having skipped a table that
\* holds rows and loaded rows into another.
C2_Witness ==
    /\ Completing
    /\ interrupted
    /\ \E t \in Tables : decision[t] = "skip" /\ db[t] # <<>>
    /\ \E t \in Tables : decision[t] = "load" /\ db[t] # <<>>

\* ---------------------------------------------------------------------- C3
\* What holds of a table the run has skipped: the reported count is the
\* table's row count, and it is not zero.
C3_Skipped ==
    \A t \in Tables :
        decision[t] = "skip" => (stats[t] = table_count(t) /\ table_count(t) > 0)

\* A step of the guard of table t loads iff the count it reads is 0, a skip
\* reports the count it read, and no step changes a skipped table.
C3_GuardStep ==
    /\ (pc = "guard" /\ pc' = "skip") => (table_count(cur) > 0 /\ decision' = decision)
    /\ (pc = "guard" /\ pc' = "read") => table_count(cur) = 0
    /\ (pc = "skip" /\ pc' \in {"guard", "summary"}) => decision'[cur] = "skip"
    /\ \A t \in Tables :
        /\ (decision[t] = "none" /\ decision'[t] # "none") =>
              /\ decision'[t] = "load" <=> table_count(t) = 0
              /\ decision'[t] = "skip" =>
                    (stats'[t] = table_count(t) /\ db'[t] = db[t] /\ txn'[t] = txn[t])
        /\ (decision[t] = "skip" /\ decision'[t] = "skip") =>
              (db'[t] = db[t] /\ txn'[t] = txn[t] /\ stats'[t] = stats[t])

\* The step that leaves the branch of a guard that read a non-zero count
\* (the kill of the process aside) reports the count of the table.
C3_SkipReports ==
    (pc = "skip" /\ pc' \notin {"skip", "idle"}) =>
        (decision'[cur] = "skip" /\ stats'[cur] = table_count(cur))

\* C3 as written: in every run and for each table, the loader is invoked iff
\* the row count is 0 when the guard is evaluated; otherwise (also for a
\* partially loaded table) the loader is not invoked, the run reports the
\* count found, and the table is left unchanged.
C3_NonZeroCountReported ==
    [](C3_Skipped) /\ [][C3_GuardStep /\ C3_SkipReports]_vars

\* While the exception of a COUNT(*) query propagates, the run is on its way
\* out: the table of the query has no decision and no count, no later table
\* was looked at, and no summary is printed.
C3_CountFailed ==
    raisedBy = "count" =>
        /\ pc = "close" \/ Ended
        /\ ~summary
        /\ pc = "close" => (decision[cur] = "none" /\ stats[cur] = NoStat)
        /\ \A t \in Tables : t > cur => (decision[t] = "none" /\ stats[t] = NoStat)

\* A guard is left for the finally clause only by a COUNT(*) query that
\* raised, with nothing decided, reported or written; the branch of a
\* non-zero count is left otherwise (the kill aside) with the count reported.
C3_CountFailStep ==
    /\ (pc \in {"guard", "skip"} /\ pc' = "close") =>
          /\ raisedBy' = "count"
          /\ decision' = decision /\ stats' = stats
          /\ db' = db /\ txn' = txn
    /\ (pc = "skip" /\ pc' \notin {"skip", "idle", "close"}) =>
          (decision'[cur] = "skip" /\ stats'[cur] = table_count(cur))

\* C3, amended: the loader is invoked iff the guard's COUNT(*) query returns
\* 0; when it returns a non-zero count (also for a partially loaded table)
\* the loader is not invoked and the table is left unchanged, and the run
\* reports the count that a second COUNT(*) query returns, the table's count;
\* when either query raises, the loader is not invoked, nothing is reported
\* for the table and the run ends by the propagated failure.
C3_CheckpointGuard ==
    [](C3_Skipped /\ C3_CountFailed) /\ [][C3_GuardStep /\ C3_CountFailStep]_vars

\* A run is past a table it skipped although the table holds only part of
\* its file, and has invoked the loader of an empty one.
C3_Witness ==
    /\ \E t \in Tables :
         decision[t] = "skip" /\ nrows[t] # NotRead /\ 0 < Len(db[t]) /\ Len(db[t]) < nrows[t]
    /\ \E t \in Tables : decision[t] = "load" /\ pc = "loop"

\* ---------------------------------------------------------------------- C4
\* C4 as written: the run after a complete run on an empty destination
\* invokes no loader.
C4_SecondRunInvokesNoLoader ==
    (runs >= 2 /\ ~interrupted /\ pc # "idle") =>
        \A t \in Tables : decision[t] # "load"

\* A run after runs that completed inserts, commits and rolls back rows only
\* of entities, only when batches of it were dropped before, and only in its
\* loader, which a guard that read the count 0 has invoked.
C4_SecondRunStep ==
    (runs >= 2 /\ ~interrupted) =>
        /\ \A t \in Tables :
              (db'[t] # db[t] \/ txn'[t] # txn[t]) =>
                  (t = Entities /\ dropped /\ cur = Entities /\ decision[t] = "load")
        /\ (pc = "guard" /\ pc' = "read") => (db[cur] = <<>> /\ txn[cur] = <<>>)

\* What runs that completed leave, and what a run after them finds: every
\* table but entities holds exactly its source rows, and so does entities
\* when no batch of it was dropped; the loader is invoked only of a table
\* whose source file has no rows, or of entities when batches were dropped.
C4_AfterCompleteRuns ==
    /\ (runs >= 1 /\ ~interrupted /\ pc = "idle") =>
          \A t \in Tables : (t # Entities \/ ~dropped) => Full(t)
    /\ (runs >= 2 /\ ~interrupted /\ pc # "idle") =>
          /\ calls # <<>> => (cur = Entities /\ dropped)
          /\ \A t \in Tables :
                /\ (t # Entities \/ ~dropped) => (Full(t) /\ txn[t] = <<>>)
                /\ decision[t] = "load" =>
                      (nrows[t] = 0 \/ (t = Entities /\ dropped))

\* C4, amended: after runs that completed, every table not empty has the
\* row count the first run gave it, and a later run invokes no loader for it
\* and writes nothing to it.  A later run invokes the loader only of a table
\* that is empty at its guard: one whose source file has no rows, for which
\* nothing is written, or entities when every batch of it was dropped, which
\* is then loaded again.
C4_SecondRunWritesNothing ==
    [](C4_AfterCompleteRuns) /\ [][C4_SecondRunStep]_vars

\* A second run completes after a clean first one: it skipped a table and
\* invoked the loader of a table whose file has no rows.
C4_Witness ==
    /\ runs = 2 /\ ~interrupted /\ ~dropped /\ Completing
    /\ \E t \in Tables : decision[t] = "skip"
    /\ \E t \in Tables : decision[t] = "load" /\ nrows[t] = 0

\* ---------------------------------------------------------------------- C5
\* C5: a loader that has gone through its file of N rows has issued
\* ceil(N / BATCH_SIZE) write calls, whose batches are the rows 1 .. N in
\* order: every batch but the last has BATCH_SIZE rows and the last has
\* between 1 and BATCH_SIZE.
C5_BatchSize ==
    pc = "ret" =>
        /\ Len(calls) = NumBatches(nrows[cur])
        /\ ConcatGood(calls, {}, Len(calls)) = Iota(nrows[cur])
        /\ \A k \in 1 .. Len(calls) :
              /\ k < Len(calls) => Len(calls[k]) = BATCH_SIZE
              /\ Len(calls[k]) \in 1 .. BATCH_SIZE

\* The relationships loader is about to return after a full batch and a
\* partial one.
C5_Witness ==
    /\ pc = "ret" /\ cur = Len(TableOrder)
    /\ Len(calls) = 2
    /\ Len(calls[1]) = BATCH_SIZE /\ Len(calls[2]) < BATCH_SIZE

\* ---------------------------------------------------------------------- C6
\* C6: the committed content of a table never holds part of a batch: of each
\* batch of the source file, and of each batch the running loader has handed
\* to executemany, the table holds all rows or none.
C6_BatchAtomicity ==
    /\ \A t \in Tables :
          IF nrows[t] = NotRead THEN db[t] = <<>>
          ELSE \A b \in 1 .. NumBatches(nrows[t]) :
                  \/ BatchRows(nrows[t], b) \subseteq Range(db[t])
                  \/ BatchRows(nrows[t], b) \cap Range(db[t]) = {}
    /\ \A k \in 1 .. Len(calls) :
          \/ Range(calls[k]) \subseteq Range(db[cur])
          \/ Range(calls[k]) \cap Range(db[cur]) = {}

\* A loader without a rollback of its own has failed in its second batch:
\* the first batch is committed, and rows of the second are inserted and
\* uncommitted when the exception reaches the finally clause.
C6_Witness ==
    /\ pc = "close" /\ raisedBy = "write"
    /\ db[cur] # <<>>
    /\ txn[cur] # <<>>

\* ---------------------------------------------------------------------- C7
\* The guards of a run were evaluated in the order of TableOrder, none twice,
\* each after the table before it got its count; uncommitted rows belong to
\* the table the run is at, and its loader is running.
C7_Order ==
    /\ order = Iota(Len(order))
    /\ \A k \in 1 .. Len(order) :
          /\ decision[order[k]] # "none"
          /\ k < Len(order) => stats[order[k]] # NoStat
    /\ \A t \in Tables : decision[t] # "none" => t \in Range(order)
    /\ \A t \in Tables :
          txn[t] # <<>> => (t = cur /\ decision[t] = "load" /\ order[Len(order)] = t)

\* A step that writes to a table is a step of the loader of the table the run
\* is at, the last one whose guard was evaluated.
C7_WriteStep ==
    \A t \in Tables :
        (db'[t] # db[t] \/ (txn'[t] # txn[t] /\ txn'[t] # <<>>)) =>
            (t = cur /\ InLoader /\ decision[t] = "load" /\ order[Len(order)] = t)

\* C7: every run processes the tables in the order entities, officers,
\* intermediaries, addresses, relationships; the guard and the writes of a
\* table come only after the table before it was processed or skipped, and no
\* table is processed twice in a run.
C7_SequentialOrder == [](C7_Order) /\ [][C7_WriteStep]_vars

\* A run is past all five tables, having skipped some and loaded others.
C7_Witness ==
    /\ pc = "summary"
    /\ order = <<1, 2, 3, 4, 5>>
    /\ \E t \in Tables : decision[t] = "skip"
    /\ \E t \in Tables : decision[t] = "load" /\ db[t] # <<>>

\* ---------------------------------------------------------------------- C8
\* While an exception of a loader propagates, the run is on its way to the
\* finally clause: no summary was printed, the failed table has no count and
\* no later table was looked at.
C8_Raised ==
    raisedBy \in {"read", "write", "rollback"} =>
        /\ pc = "close" \/ Ended
        /\ ~summary
        /\ pc = "close" => decision[cur] = "load" /\ stats[cur] = NoStat
        /\ \A t \in Tables : t > cur => (decision[t] = "none" /\ stats[t] = NoStat)

\* The steps after the exception close the connection and end the process,
\* and leave every committed row in place; no step of any run removes or
\* reorders committed rows.
C8_RaisedStep ==
    /\ raisedBy \in {"read", "write", "rollback"} =>
          (pc' \in {"exit", "reported", "idle"} /\ db' = db)
    /\ \A t \in Tables : IsPrefix(db[t], db'[t])

\* C8: when a loader's failure is not handled inside the loader the run ends
\* there: no guard and no write for a later table, no summary, and every batch
\* committed earlier stays in the destination.
C8_FailurePropagation == [](C8_Raised) /\ [][C8_RaisedStep]_vars

\* A write of the third or fourth table failed after a batch of that table
\* and rows of the tables before it were committed.
C8_Witness ==
    /\ pc = "close" /\ raisedBy = "write"
    /\ cur \in {3, 4}
    /\ db[cur] # <<>>
    /\ \A t \in 1 .. cur - 1 : db[t] # <<>>

\* ---------------------------------------------------------------------- C9
\* Inside the entities loader: one warning is recorded per failed batch, the
\* table holds the batches that did not fail, the counter is their rows, and
\* a loader that returns has attempted every batch of the file.
C9_Loader ==
    (cur = Entities /\ InLoader) =>
          /\ errors = Cardinality(failed)
          /\ db[Entities] = ConcatGood(calls, failed \cup InFlight, Len(calls))
          /\ total_loaded = Len(db[Entities])
          /\ pc \in {"loop", "exec", "ret"} => txn[Entities] = <<>>
          /\ pc \in {"loop", "exec"} =>
                \A k \in 1 .. Len(calls) : Range(records) \cap Range(calls[k]) = {}
          /\ pc = "ret" =>
                /\ Len(calls) = NumBatches(nrows[Entities])
                /\ total_loaded + Len(ConcatGood(calls, 1 .. Len(calls) \ failed, Len(calls)))
                      = nrows[Entities]

\* C9 as written: a failed batch write of the entities loader does not
\* raise: one warning is recorded per failed batch, the batch is rolled back
\* and dropped, the next batch is attempted, and the returned count leaves
\* out the rows of the failed batches.
C9_EntitiesNeverRaises ==
    /\ C9_Loader
    /\ (pc = "close" /\ raisedBy \in {"write", "rollback"}) => cur # Entities

\* C9, amended: as written when the rollback of the failed batch succeeds;
\* when connection.rollback() raises, the entities loader raises: the batch
\* that failed is its last attempt, the table holds the batches committed
\* before, and the run is on its way out with no count for entities and no
\* summary.
C9_EntitiesSkipAndContinue ==
    /\ C9_Loader
    /\ (pc = "close" /\ raisedBy = "write") => cur # Entities
    /\ (pc = "close" /\ raisedBy = "rollback") =>
          /\ cur = Entities
          /\ Len(calls) \in failed
          /\ errors = Cardinality(failed)
          /\ db[Entities] = ConcatGood(calls, failed, Len(calls))
          /\ total_loaded = Len(db[Entities])
          /\ stats[Entities] = NoStat /\ ~summary

\* The entities loader is about to return: its first batch failed and was
\* dropped, its second was committed.
C9_Witness ==
    /\ pc = "ret" /\ cur = Entities
    /\ failed = {1} /\ Len(calls) = 2
    /\ db[Entities] = calls[2]
    /\ errors = 1

\* --------------------------------------------------------------------- C10
\* C10: in the officers, intermediaries, addresses and relationships loaders
\* the first failed batch write is the last write of the load: the exception
\* leaves the loader, and the table holds exactly the batches committed
\* before it.
C10_AbortTable ==
    (cur # Entities /\ (InLoader \/ raisedBy = "write")) =>
        /\ db[cur] = ConcatGood(calls, failed \cup InFlight, Len(calls))
        /\ total_loaded = Len(db[cur])
        /\ errors = 0
        /\ failed # {} =>
              /\ failed = {Len(calls)}
              /\ raisedBy = "write"
              /\ pc = "close" \/ Ended
              /\ db[cur] = ConcatGood(calls, {}, Len(calls) - 1)

\* The second batch of the relationships load failed: the exception is on
\* its way out, and the first batch is in the table.
C10_Witness ==
    /\ cur = Len(TableOrder)
    /\ pc = "close" /\ raisedBy = "write"
    /\ failed = {2}
    /\ db[cur] = calls[1]

\* --------------------------------------------------------------------- C11
\* The process is inside main's try block or its finally clause.
InTry ==
    pc \in {"guard", "skip", "read", "loop", "exec", "commit", "rollback", "ret", "summary",
            "close"}

\* A run has at most one session; it is open and not closed throughout the
\* try block.  Without a session no guard was evaluated and no batch written.
C11_Session ==
    /\ opened \in {0, 1} /\ closed <= opened
    /\ pc \in {"wallet", "connect"} => opened = 0
    /\ InTry => (opened = 1 /\ closed = 0)
    /\ opened = 0 =>
          (order = <<>> /\ calls = <<>> /\ \A t \in Tables : txn[t] = <<>>)

\* When the script has ended, every session opened was closed once.
C11_ClosedAtEnd == Ended => closed = opened

\* When the script has ended, a session opened was closed once, or the one
\* call of connection.close() raised and the session, with nothing
\* uncommitted left in it, ended with the process.
C11_CloseCalledAtEnd ==
    Ended =>
        /\ raisedBy # "close" => closed = opened
        /\ raisedBy = "close" => (opened = 1 /\ closed = 0)
        /\ \A t \in Tables : txn[t] = <<>>

\* A step that evaluates a guard, hands a batch to executemany, inserts or
\* commits rows is a step of a run whose session is open and not closed.
C11_SessionStep ==
    (\/ Len(order') > Len(order)
     \/ Len(calls') > Len(calls)
     \/ db' # db
     \/ \E t \in Tables : Len(txn'[t]) > Len(txn[t]))
        => (InTry /\ pc # "close" /\ opened = 1 /\ closed = 0 /\ opened' = 1 /\ closed' = 0)

\* C11 as written: a run opens at most one session, every guard query and
\* every loader uses it, and once opened it is closed exactly once before the
\* run ends, whether the run completes, skips tables or ends by a propagated
\* failure; nothing is written or queried after the close.
C11_AlwaysClosed ==
    [](C11_Session /\ C11_ClosedAtEnd) /\ [][C11_SessionStep]_vars

\* C11, amended: as written, with connection.close() called exactly once
\* before the run ends; when that call raises, the run ends by that failure
\* without having closed its session.
C11_SessionLifecycle ==
    [](C11_Session /\ C11_CloseCalledAtEnd) /\ [][C11_SessionStep]_vars

\* The second run of a destination that holds rows has ended by a failed
\* write of a loader, its session closed once.
C11_Witness ==
    /\ Ended /\ raisedBy = "write"
    /\ opened = 1 /\ closed = 1
    /\ runs = 2
    /\ \E t \in Tables : db[t] # <<>>

\* --------------------------------------------------------------------- C12
\* An error has occurred in the run: a credential was missing, an exception
\* left main, or a batch write of the entities loader failed.
ErrorOccurred ==
    errmsg # "none" \/ raisedBy # "none" \/ warned \/ errors > 0

\* C12: a run in which an error occurred (missing password, missing wallet
\* password file, missing source file, failed batch write in any loader)
\* does not report success: neither the script's 'Ingestion Complete' summary
\* nor manage.py's 'Data ingestion complete!' is printed for it.
C12_NoErrorReportedAsSuccess ==
    ErrorOccurred => (~summary /\ ~complete_msg)

\* --------------------------------------------------------------------- C13
\* A fatal condition of the error taxonomy has stopped the run: a credential
\* was missing, or an exception (a source file that cannot be read, a failed
\* batch write outside the entities loader, a failed connect) has left main.
Fatal == errmsg # "none" \/ raisedBy # "none"

\* C13: the script exits non-zero exactly when a fatal condition stopped the
\* run; a run that completes, with tables skipped or entities batches dropped,
\* exits zero.
C13_ExitStatus ==
    Ended => (ExitStatus # 0 <=> Fatal)

\* --------------------------------------------------------------------- C14
\* A run that found no password or no wallet password file has ended there:
\* it has no session, has evaluated no guard and has written no batch.
C14_Stopped ==
    errmsg # "none" =>
        /\ Ended
        /\ opened = 0
        /\ order = <<>> /\ calls = <<>>
        /\ \A t \in Tables : decision[t] = "none" /\ txn[t] = <<>>

\* The step that finds the credential missing, and every step of the run
\* after it, leaves every table as it was.
C14_StoppedStep ==
    (errmsg # "none" \/ errmsg' # "none") => (db' = db /\ txn' = txn)

\* C14: missing destination credentials (no password resolved, or no wallet
\* password file) stop the run at startup: no session is opened, no guard
\* query is issued and no row is written to any table.
C14_CredentialsFatalAtStartup == [](C14_Stopped) /\ [][C14_StoppedStep]_vars

\* The second run of a destination that holds rows has stopped for want of
\* the wallet password file.
C14_Witness ==
    /\ pc = "exit" /\ errmsg = "wallet"
    /\ runs = 2
    /\ \E t \in Tables : db[t] # <<>>

\* --------------------------------------------------------------------- C15
\* While the exception of a failed read_csv propagates: the loader has handed
\* no batch to executemany, its table is empty and has no count, nothing is
\* uncommitted, and the run is on its way out without a summary.
C15_ReadFailed ==
    raisedBy = "read" =>
        /\ calls = <<>>
        /\ \A t \in Tables : txn[t] = <<>>
        /\ ~summary
        /\ pc = "close" \/ Ended
        /\ pc = "close" =>
              (db[cur] = <<>> /\ decision[cur] = "load" /\ stats[cur] = NoStat)

\* The step in which read_csv fails, and the steps of the run after it, change
\* no table.
C15_ReadFailedStep == raisedBy' = "read" => db' = db

\* C15: a missing or unreadable source file is fatal for that table's load
\* and harmless for the rest: the loader fails before any write, the table
\* stays empty, and the tables completed or skipped earlier in the run are
\* unchanged; the table being empty, the guard of a later run loads it.
C15_MissingSourceFile == [](C15_ReadFailed) /\ [][C15_ReadFailedStep]_vars

\* The read of a later table's file has failed in a run whose earlier tables
\* hold rows.
C15_Witness ==
    /\ raisedBy = "read" /\ pc = "close"
    /\ cur > 1
    /\ \A t \in 1 .. cur - 1 : db[t] # <<>>

\* --------------------------------------------------------------------- C16
\* C16: a run that reaches completion prints one count for each of the five
\* tables and a grand total; each count is the number of rows the table holds
\* at that moment, and the total is the sum of the five counts printed.
C16_Summary ==
    summary =>
        /\ Len(printed) = Len(TableOrder) + 1
        /\ \A t \in Tables : printed[t] = Len(db[t]) /\ txn[t] = <<>>
        /\ printed[Len(printed)] = printed[1] + printed[2] + printed[3] + printed[4] + printed[5]

\* A run has printed its summary after skipping a table and loading another
\* whose last batch was not a full one.
C16_Witness ==
    /\ Completing /\ summary
    /\ \E t \in Tables : decision[t] = "skip"
    /\ \E t \in Tables : decision[t] = "load" /\ Len(db[t]) % BATCH_SIZE # 0

\* --------------------------------------------------------------------- C17
\* A password was given on the command line: the string is not empty.
Given(pw) == pw # None /\ pw # <<>>

\* What each sample line of the .env file that sets the key sets it to.
LineSets(line) ==
    CASE line = <<KeyPrefix, "f">> -> <<"f">>
      [] line = <<KeyPrefix, " ", "\"", "f", "\"", " ">> -> <<"f">>
      [] line = <<KeyPrefix, "'", "f", "=", "g", "'">> -> <<"f", "=", "g">>
      [] line = <<KeyPrefix>> -> <<>>
      [] line = <<KeyPrefix, "\\x1f", "f", "\\xa0">> -> <<"f">>
      [] line = <<KeyPrefix, "\\x1f">> -> <<>>

\* The lines of file f that set the key, by position.
KeyLines(f) == { i \in 1 .. Len(f.lines) : f.lines[i][1] = KeyPrefix }

\* What the .env file f provides: the value of its first line that sets the
\* key, nothing when there is no file or no such line.
FileSecret(f) ==
    IF f.exists /\ KeyLines(f) # {}
    THEN LineSets(f.lines[CHOOSE i \in KeyLines(f) : \A j \in KeyLines(f) : i <= j])
    ELSE None

\* C17: the password is the --password argument whenever one is given;
\* otherwise the built-in default when, and only when, the user is
\* PANAMA_PAPERS in any spelling of case; otherwise the environment variable,
\* then the .env file; when nothing resolves the run stops with an error.
C17_CredentialChain ==
    fn = "password" =>
        LET a == input
            pw == output.password
        IN  /\ Given(a.password) => pw = a.password
            /\ (~Given(a.password) /\ a.user \in LoaderUsers) => pw = DefaultPassword
            /\ (~Given(a.password) /\ a.user \in OtherUsers) =>
                  /\ pw # DefaultPassword
                  /\ Given(a.env) => pw = a.env
                  /\ (~Given(a.env) /\ Given(FileSecret(a.envFile))) =>
                        pw = FileSecret(a.envFile)
                  /\ (~Given(a.env) /\ ~Given(FileSecret(a.envFile))) => ~Given(pw)
            /\ output.next = (IF Given(pw) THEN "wallet" ELSE "exit")

\* No --password, the user name in lower case, and a secret in the
\* environment: the built-in default was taken.
C17_Witness ==
    /\ fn = "password"
    /\ input.password = None
    /\ input.user = <<"p", "a", "n", "a", "m", "a", "_", "p", "a", "p", "e", "r", "s">>
    /\ Given(input.env)
    /\ output.password = DefaultPassword

\* --------------------------------------------------------------------- C18
\* C18: parseDate never raises and returns a valid calendar date or absent:
\* a day written in any of the layouts YYYY-MM-DD, DD-Mon-YYYY, YYYY/MM/DD,
\* DD/MM/YYYY gives that day (so the same day in two layouts gives equal
\* results); the empty string, the text null, the missing-value marker and
\* every other string, a triple that names no day included, give absent.
C18_ParseDate ==
    fn = "safe_date_parse" =>
        /\ output # ValueError
        /\ output = None \/ output \in ValidDates
        /\ input.date \in ValidDates => output = input.date
        /\ input.date \in InvalidDates => output = None
        /\ input.k = 0 => output = None

\* C18, amended: as C18 for a text whose digits are 0 to 9, blanks and
\* line breaks around it left aside, with the month and the day in one or
\* two digits, a day under 10 also as a blank and its digit, and the month's
\* name in any case; a text with decimal digits of another
\* script of Unicode gives its day when they are the year or the second
\* digit of a day from 10 to 29, and absent when they are in the month or
\* elsewhere in the day.
C18_ParseDateDigits ==
    fn = "safe_date_parse" =>
        /\ output # ValueError
        /\ output = None \/ output \in ValidDates
        /\ input.wide = "none" =>
              /\ input.date \in ValidDates => output = input.date
              /\ input.date \in InvalidDates => output = None
              /\ input.k = 0 => output = None
        /\ input.wide = "year" =>
              output = (IF input.date \in ValidDates THEN input.date ELSE None)
        /\ input.wide = "day2" =>
              output = (IF input.date \in ValidDates /\ input.date[3] \in 10 .. 29
                        THEN input.date ELSE None)
        /\ input.wide \in {"month", "day1"} => output = None

\* The third of April written as 2016-04- 3, the day as a blank and its
\* digit, after a line break and before one, was parsed as that day.
C18_Witness ==
    /\ fn = "safe_date_parse"
    /\ input.text = <<"\n", "2", "0", "1", "6", "-", "0", "4", "-", " ", "3", "\r", "\n">>
    /\ output = <<2016, 4, 3>>

\* --------------------------------------------------------------------- C19
\* The declared maximum width of every text column, in the order of the
\* insert statements (0: a date column).
DeclaredWidths ==
    << <<50, 500, 200, 500, 200, 500, 0, 0, 0, 100, 200, 100, 1000, 100>>,
       <<50, 500, 200, 500, 100, 100>>,
       <<50, 500, 200, 500, 100, 100, 100, 1000>>,
       <<50, 2000, 200, 500, 100>>,
       <<50, 50, 100, 100, 0, 0>> >>

\* The text columns of table t, by position in the record.
TextColumns(t) == { i \in 1 .. Len(DeclaredWidths[t]) : DeclaredWidths[t][i] > 0 }

\* C19: a value longer than the column's width is cut to exactly its first
\* width characters, a value of at most the width is passed unchanged, and a
\* missing value stays missing; so every text column of every record handed
\* to a bulk insert is missing or no longer than its declared width, and the
\* loader drops no row for its width: every row gives a record.
C19_TruncateToWidth ==
    fn = "record" =>
        LET t == input.table
            row == input.cells
        IN  /\ Len(output) = Len(DeclaredWidths[t])
            /\ \A i \in TextColumns(t) :
                  LET w == DeclaredWidths[t][i]
                      key == fields(t)[i].keys[1]
                  IN  /\ output[i] = None \/ Len(output[i]) <= w
                      /\ key \in DOMAIN row =>
                            IF row[key] = NaN THEN output[i] = None
                            ELSE IF Len(row[key]) <= w THEN output[i] = row[key]
                            ELSE /\ Len(output[i]) = w
                                 /\ \A j \in 1 .. w : output[i][j] = row[key][j]

\* A row of the addresses file whose cells are 2001 characters long: the
\* address is cut to 2000, the node id to 50.
C19_Witness ==
    /\ fn = "record" /\ input.table = 4
    /\ "address" \in DOMAIN input.cells
    /\ Len(input.cells["address"]) = 2001
    /\ Len(output[2]) = 2000 /\ Len(output[1]) = 50

\* --------------------------------------------------------------------- C20
\* The names of column i of table t that are columns of the file, by
\* position among the column's names.
Present(t, i, row) ==
    { k \in 1 .. Len(fields(t)[i].keys) : fields(t)[i].keys[k] \in DOMAIN row }

\* C20: a column read by two names (source id, relationship endpoints and
\* type, address text) takes the cell under the first of its names that is
\* in the file's header (cut to the column's width), and is missing when
\* neither is; so a file with a start column and no node_id_start column
\* gives the start cells.
C20_AliasResolution ==
    fn = "record" =>
        LET t == input.table
            row == input.cells
        IN  \A i \in TextColumns(t) :
                LET keys == fields(t)[i].keys
                    first == CHOOSE k \in Present(t, i, row) :
                                 \A j \in Present(t, i, row) : k <= j
                IN  IF Present(t, i, row) = {} THEN output[i] = None
                    ELSE IF row[keys[first]] = NaN THEN output[i] = None
                    ELSE /\ IsPrefix(output[i], row[keys[first]])
                         /\ Len(row[keys[first]]) <= DeclaredWidths[t][i] =>
                               output[i] = row[keys[first]]

\* A relationships file with start, end and type columns and none of
\* node_id_start, node_id_end, rel_type: their cells are in the record.
C20_Witness ==
    /\ fn = "record" /\ input.table = 5
    /\ {"start", "end", "type"} \subseteq DOMAIN input.cells
    /\ {"node_id_start", "node_id_end", "rel_type"} \cap DOMAIN input.cells = {}
    /\ output[1] = CellOf("start") /\ output[2] = CellOf("end")
    /\ output[3] = CellOf("type")

\* --------------------------------------------------------------------- C21
\* Rows that are inserted and not committed are not among the committed rows
\* of their table, and no row of a batch whose write failed is.
C21_Hidden ==
    /\ \A t \in Tables : Range(txn[t]) \cap Range(db[t]) = {}
    /\ \A k \in failed : Range(calls[k]) \cap Range(db[cur]) = {}

\* No step removes, moves or replaces a committed row: each table's committed
\* rows after the step begin with its committed rows before it.
C21_GrowStep == \A t \in Tables : IsPrefix(db[t], db'[t])

\* C21: the pipeline only inserts: over any sequence of runs the committed
\* rows of each table only grow, each committed row staying where it is, and
\* a row rolled back after a failed batch was at no time a committed row.
C21_InsertOnly == [](C21_Hidden) /\ [][C21_GrowStep]_vars

\* The entities loader is about to roll back the rows its failed second
\* batch left inserted; its first batch is committed.
C21_Witness ==
    /\ pc = "rollback" /\ cur = Entities
    /\ failed = {2}
    /\ db[Entities] = calls[1]
    /\ txn[Entities] # <<>>

\* --------------------------------------------------------------------- C22
\* A command line without a --batch-size option.
NoBatchSize == 0

\* Command lines of the script: each option given or not (None), and a
\* --batch-size option given with a size or not.
CommandLines ==
    [data_dir : {None, <<"d">>}, wallet_dir : {None, <<"w">>},
     service : {None, <<"s">>}, user : {None} \cup RunUsers,
     password : ArgPasswords,
     batch_size : {NoBatchSize, 1, BATCH_SIZE + 1}]

\* parser.parse_args() ends the process with status 2: an argument that is
\* none of the parser's five options, or a required option not given.
Rejected(argv) ==
    \/ argv.batch_size # NoBatchSize
    \/ argv.data_dir = None \/ argv.wallet_dir = None \/ argv.service = None

\* The namespace parse_args returns: --user has a default.
Namespace(argv) ==
    [data_dir |-> argv.data_dir, wallet_dir |-> argv.wallet_dir,
     service |-> argv.service,
     user |-> IF argv.user = None THEN PANAMA_PAPERS ELSE argv.user,
     password |-> argv.password]

\* The size the loaders compare len(records) with: the module's BATCH_SIZE,
\* which main never assigns.
LoaderBatchSize(args) == BATCH_SIZE

InitArgs ==
    /\ NoProcess
    /\ fn = "none"
    /\ input \in CommandLines
    /\ output = NoCall

\* main() from its first line to parse_args, on the command line input.
CallParseArgs ==
    /\ fn = "none"
    /\ fn' = "parse_args"
    /\ output' = [rejected |-> Rejected(input),
                  args |-> Namespace(input),
                  batch_size |-> LoaderBatchSize(Namespace(input))]
    /\ UNCHANGED <<input, nrows, changes, job, db, txn, pc, past, mainVars, loaderVars, procVars, other>>

SpecArgs == InitArgs /\ [][CallParseArgs]_vars

\* C22: a command line that gives the three required options is accepted
\* with or without a batch size, and the loaders' batch size is the size
\* given when one is given and the default otherwise.
C22_BatchSizeOverride ==
    (/\ fn = "parse_args"
     /\ input.data_dir # None /\ input.wallet_dir # None /\ input.service # None)
        => /\ ~output.rejected
           /\ output.batch_size = IF input.batch_size = NoBatchSize
                                  THEN BATCH_SIZE
                                  ELSE input.batch_size

\* --------------------------------------------------------------------- C23
\* Rows (k-1)*B+1 .. min(k*B, n) of a file of n rows, in source order.
BatchSeq(n, k) ==
    LET first == (k - 1) * BATCH_SIZE
        last == IF k * BATCH_SIZE < n THEN k * BATCH_SIZE ELSE n
    IN  [i \in 1 .. last - first |-> first + i]

\* The k-th write call of the loader carried the k-th batch of the file, and
\* what is inserted and uncommitted is rows of the last write call only.
C23_Batches ==
    /\ \A k \in 1 .. Len(calls) : calls[k] = BatchSeq(nrows[cur], k)
    /\ \A t \in Tables : t # cur => txn[t] = <<>>
    /\ IF calls = <<>> THEN txn[cur] = <<>>
       ELSE IsPrefix(txn[cur], calls[Len(calls)])

\* A step that issues an insert finds nothing uncommitted: every batch
\* before it was committed, or failed in the entities loader and was rolled
\* back.
C23_InsertStep ==
    Len(calls') > Len(calls) =>
        /\ Len(calls') = Len(calls) + 1
        /\ \A t \in Tables : txn[t] = <<>>
        /\ db[cur] = ConcatGood(calls, failed, Len(calls))
        /\ failed # {} => cur = Entities

\* C23: within a table the batches are written in source order, one at a
\* time: write call k carries rows (k-1)*B+1 .. min(k*B, N), and the insert
\* of the next batch is issued only after the batch before it was committed
\* or, in the entities loader, rolled back.
C23_BatchesInOrder == [](C23_Batches) /\ [][C23_InsertStep]_vars

\* The entities loader has inserted its second batch after its first failed
\* and was rolled back.
C23_Witness ==
    /\ pc = "commit" /\ cur = Entities
    /\ Len(calls) = 2 /\ failed = {1}
    /\ db[Entities] = <<>>
    /\ txn[Entities] = calls[2]

\* --------------------------------------------------------------------- C24
\* The relationships table, and the node tables before it.
Relationships == Len(TableOrder)

NodeTables == Tables \ {Relationships}

\* A run is past the relationships loader, which it invoked: the table holds
\* every row of its file, whatever the node tables hold.
C24_Loaded ==
    (pc = "summary" /\ decision[Relationships] = "load") =>
        /\ Full(Relationships)
        /\ stats[Relationships] = nrows[Relationships]

\* The step that evaluates the guard of relationships invokes the loader iff
\* the relationships table is empty, whatever the node tables hold.
C24_GuardStep ==
    (decision[Relationships] = "none" /\ decision'[Relationships] # "none") =>
        (decision'[Relationships] = "load" <=> table_count(Relationships) = 0)

\* C24: the guard of a table looks at that table's row count only, and no
\* relationship row is checked against the node tables: relationships is
\* loaded in full also when node tables were skipped partially loaded or
\* entities batches were dropped.
C24_NoReferentialCheck == [](C24_Loaded) /\ [][C24_GuardStep]_vars

\* The relationships file was loaded in full by a run that skipped a node
\* table holding part of its file, with rows of entities dropped by a failed
\* batch in this run or an earlier one.
C24_Witness ==
    /\ pc = "summary" /\ decision[Relationships] = "load"
    /\ nrows[Relationships] > 0 /\ Full(Relationships)
    /\ \E t \in NodeTables \ {Entities} :
          decision[t] = "skip" /\ Len(db[t]) < nrows[t]
    /\ Len(db[Entities]) < nrows[Entities]
    /\ warned \/ dropped

\* ------------------------------------------------------ two processes
\* The frame of a process that has not started.
IdleFrame ==
    [pc |-> "idle", txn |-> [t \in Tables |-> <<>>], cur |-> 1,
     stats |-> [t \in Tables |-> NoStat], raisedBy |-> "none",
     summary |-> FALSE, warned |-> FALSE,
     decision |-> [t \in Tables |-> "none"], order |-> <<>>,
     df |-> NotRead, idx |-> 0, records |-> <<>>, total_loaded |-> 0, errors |-> 0,
     final |-> FALSE, calls |-> <<>>, failed |-> {},
     via |-> "none", password |-> None, errmsg |-> "none",
     opened |-> 0, closed |-> 0, complete_msg |-> FALSE, printed |-> <<>>]

\* The frame of the process that is running: its position, its locals, and
\* its session's uncommitted rows.
Frame ==
    [pc |-> pc, txn |-> txn, cur |-> cur,
     stats |-> stats, raisedBy |-> raisedBy,
     summary |-> summary, warned |-> warned,
     decision |-> decision, order |-> order,
     df |-> df, idx |-> idx, records |-> records, total_loaded |-> total_loaded,
     errors |-> errors, final |-> final, calls |-> calls, failed |-> failed,
     via |-> via, password |-> password, errmsg |-> errmsg,
     opened |-> opened, closed |-> closed, complete_msg |-> complete_msg,
     printed |-> printed]

\* The frame of the process that is not running.
Suspended == IF other.pc = "none" THEN IdleFrame ELSE other

\* Where a process can be when the other one takes a step: not started or
\* gone, before a guard's COUNT(*), and before a commit.  Every other
\* statement reads and writes nothing the other process can see: its own
\* locals, its own session's uncommitted rows and the source files.
SwitchPoints == {"idle", "guard", "skip", "commit"}

\* The scheduler takes the processor from one process of the script and
\* gives it to the other, which goes on from where it stopped.  The
\* destination and the source files are the same for both; each has its own
\* session, so its own uncommitted rows.
Switch ==
    /\ pc \in SwitchPoints
    /\ pc # "idle" \/ Suspended.pc # "idle"
    /\ other' = Frame
    /\ pc' = Suspended.pc
    /\ txn' = Suspended.txn
    /\ cur' = Suspended.cur
    /\ stats' = Suspended.stats
    /\ raisedBy' = Suspended.raisedBy
    /\ summary' = Suspended.summary
    /\ warned' = Suspended.warned
    /\ decision' = Suspended.decision
    /\ order' = Suspended.order
    /\ df' = Suspended.df
    /\ idx' = Suspended.idx
    /\ records' = Suspended.records
    /\ total_loaded' = Suspended.total_loaded
    /\ errors' = Suspended.errors
    /\ final' = Suspended.final
    /\ calls' = Suspended.calls
    /\ failed' = Suspended.failed
    /\ via' = Suspended.via
    /\ password' = Suspended.password
    /\ errmsg' = Suspended.errmsg
    /\ opened' = Suspended.opened
    /\ closed' = Suspended.closed
    /\ complete_msg' = Suspended.complete_msg
    /\ printed' = Suspended.printed
    /\ UNCHANGED <<nrows, changes, job, db, past, callVars>>

\* Two processes of the ingestion script on one destination, no call of
\* either failing.
NextTwo ==
    \/ StartCli
    \/ ReadWallet
    \/ Connect
    \/ GuardTest
    \/ GuardSkip
    \/ GuardLoad
    \/ ReadCsv
    \/ LoopRow
    \/ LoopEnd
    \/ ExecMany
    \/ CommitOk
    \/ LoaderReturn
    \/ PrintSummary
    \/ CloseConnection
    \/ ProcessExit
    \/ Switch

\* Source files of the same number of rows each, an empty destination, no
\* process.
InitFiles ==
    /\ \E n \in 0 .. MaxRows :
          nrows = [f \in Files |-> IF f \in Tables THEN n ELSE NotRead]
    /\ changes = 0
    /\ job = NoJob
    /\ db = [t \in Tables |-> <<>>]
    /\ pc = IdleFrame.pc
    /\ txn = IdleFrame.txn
    /\ cur = IdleFrame.cur
    /\ stats = IdleFrame.stats
    /\ raisedBy = IdleFrame.raisedBy
    /\ summary = IdleFrame.summary
    /\ warned = IdleFrame.warned
    /\ decision = IdleFrame.decision
    /\ order = IdleFrame.order
    /\ df = IdleFrame.df
    /\ idx = IdleFrame.idx
    /\ records = IdleFrame.records
    /\ total_loaded = IdleFrame.total_loaded
    /\ errors = IdleFrame.errors
    /\ final = IdleFrame.final
    /\ calls = IdleFrame.calls
    /\ failed = IdleFrame.failed
    /\ via = IdleFrame.via
    /\ password = IdleFrame.password
    /\ errmsg = IdleFrame.errmsg
    /\ opened = IdleFrame.opened
    /\ closed = IdleFrame.closed
    /\ complete_msg = IdleFrame.complete_msg
    /\ printed = IdleFrame.printed
    /\ other = NoOther
    /\ runs = 0
    /\ interrupted = FALSE
    /\ dropped = FALSE
    /\ fn = "none"
    /\ input = NoCall
    /\ output = NoCall

SpecTwo == InitFiles /\ [][NextTwo]_vars

\* --------------------------------------------------------------------- C25
\* How many times row r is in the sequence s.
Count(r, s) == Cardinality({i \in 1 .. Len(s) : s[i] = r})

\* The process of frame f is between its first guard and its summary.
Loading(f) == f.pc \in {"guard", "skip", "read", "loop", "exec", "commit", "ret"}

\* With two processes: a table holds rows of its file only, and none more
\* than twice; a table skipped by a process was reported with a count that
\* it held at the guard, which is not 0 and can be less than the file; and
\* while the first two runs are both loading, a table that holds a row twice
\* is one whose loader both invoked.
C25_Tables ==
    /\ \A t \in Tables : \A r \in Range(db[t]) :
          r \in 1 .. nrows[t] /\ Count(r, db[t]) <= 2
    /\ \A t \in Tables :
          /\ decision[t] = "skip" => stats[t] \in 1 .. Len(db[t])
          /\ Suspended.decision[t] = "skip" => Suspended.stats[t] \in 1 .. Len(db[t])
    /\ (runs = 2 /\ Loading(Frame) /\ Loading(Suspended)) =>
          \A t \in Tables :
              ~NoDup(db[t]) => (decision[t] = "load" /\ Suspended.decision[t] = "load")

\* A step of the running process that evaluates a guard invokes the loader
\* iff the count its session reads is 0: rows the other process has inserted
\* and not committed are not counted, and nothing makes it wait.
C25_GuardStep ==
    /\ (other' = other /\ pc = "guard" /\ pc' = "skip") => Len(db[cur]) > 0
    /\ (other' = other /\ pc = "guard" /\ pc' = "read") => Len(db[cur]) = 0
    /\ \A t \in Tables :
          (other' = other /\ decision[t] = "none" /\ decision'[t] # "none") =>
              (decision'[t] = "load" <=> Len(db[t]) = 0)

\* C25: nothing in the loader keeps a second writer out.  Two interleaved
\* runs on an empty destination can both read count 0 for a table and both
\* load it, and the table then holds source rows twice; and one can read a
\* count that is not 0 of a table the other is still loading, and skip it
\* with a partial count.
C25_NoMutualExclusion == [](C25_Tables) /\ [][C25_GuardStep]_vars

\* Two runs are interleaved: both loaded entities, which holds its first
\* row twice, and the running one has skipped a table that the other is
\* still loading, reporting a count less than the rows of the file.
C25_Witness ==
    /\ runs = 2
    /\ Count(1, db[Entities]) = 2
    /\ \E t \in Tables :
          /\ decision[t] = "skip" /\ stats[t] < nrows[t]
          /\ Suspended.cur = t /\ Suspended.pc = "commit"
          /\ Suspended.decision[t] = "load"

\* --------------------------------------------------------------------- C26
\* The rows of the batches of this load whose write failed.
DroppedRows == ConcatGood(calls, (1 .. Len(calls)) \ failed, Len(calls))

\* A loader about to return: its counter is the number of rows the table
\* holds, all that it committed, the table having been empty at the guard;
\* that is every row of the file, less the rows of failed batches in the
\* entities loader.
C26_Returning ==
    pc = "ret" =>
        /\ total_loaded = Len(db[cur])
        /\ total_loaded + Len(DroppedRows) = nrows[cur]
        /\ cur # Entities => (DroppedRows = <<>> /\ total_loaded = nrows[cur])

\* The step in which the loader returns hands that number to main.
C26_ReturnStep ==
    (pc = "ret" /\ pc' \in {"guard", "summary"}) =>
        (stats'[cur] = Len(db[cur]) /\ db' = db)

\* C26: a loader that returns normally returns the number of rows it
\* committed in that call: N for the four loaders that abort on a failed
\* write, and N less the rows of the failed batches for the entities loader.
C26_ReturnIsCommitted == [](C26_Returning) /\ [][C26_ReturnStep]_vars

\* The entities loader is about to return after its last, partial batch
\* failed: it returns the rows of the first batch.
C26_Witness ==
    /\ pc = "ret" /\ cur = Entities
    /\ failed = {2} /\ Len(calls) = 2
    /\ total_loaded = BATCH_SIZE
    /\ nrows[Entities] > BATCH_SIZE

\* --------------------------------------------------------------------- C27
\* Whenever the entities loader has issued a write, the first one carried
\* the first rows of the file; a run that skipped entities found rows in it.
C27_FromFirstRow ==
    /\ (cur = Entities /\ calls # <<>>) => calls[1] = BatchSeq(nrows[Entities], 1)
    /\ decision[Entities] = "skip" => db[Entities] # <<>>

\* While entities holds rows, a step of a run that has not invoked the
\* entities loader neither invokes it nor changes the table; and a guard
\* that finds entities empty invokes the loader.
C27_GapStep ==
    /\ (db[Entities] # <<>> /\ decision[Entities] # "load") =>
          (db'[Entities] = db[Entities] /\ decision'[Entities] # "load")
    /\ (db[Entities] = <<>> /\ decision[Entities] = "none"
            /\ decision'[Entities] # "none") =>
          decision'[Entities] = "load"

\* C27: once an entities load has committed a batch, every later run skips
\* entities, so the rows of the batches it dropped are loaded by no re-run;
\* when every batch failed the table is empty and the next run loads it
\* again from the first row.
C27_GapsArePermanent == [](C27_FromFirstRow) /\ [][C27_GapStep]_vars

\* The run after one that completed with a dropped entities batch has
\* skipped entities, which holds some and not all rows of its file, and is
\* completing.
C27_Witness ==
    /\ runs = 2 /\ ~interrupted /\ dropped
    /\ Completing /\ summary
    /\ decision[Entities] = "skip"
    /\ db[Entities] # <<>> /\ Len(db[Entities]) < nrows[Entities]

\* ------------------------------------------------------ runs that go on
\* The steps of the script itself.
Steps ==
    \/ ReadWallet
    \/ Connect
    \/ ConnectFail
    \/ GuardTest
    \/ GuardSkip
    \/ GuardLoad
    \/ CountFail
    \/ ReadCsv
    \/ ReadFail
    \/ LoopRow
    \/ LoopEnd
    \/ ExecMany
    \/ ExecManyFail
    \/ CommitOk
    \/ CommitFail
    \/ RollbackBatch
    \/ RollbackFail
    \/ LoaderReturn
    \/ PrintSummary
    \/ CloseConnection
    \/ CloseFail

\* A call into pandas or the database driver never returns: the script sets
\* no timeout, and the process waits in the call with its session open.  The
\* wait changes nothing: where only what a run does is in question (Spec), it
\* is a run that takes no further step.
Hang ==
    /\ pc \in {"connect", "guard", "skip", "read", "exec", "commit", "rollback", "close"}
    /\ pc' = "hung"
    /\ UNCHANGED procVars
    /\ UNCHANGED <<nrows, changes, job, db, txn, past, mainVars, loaderVars>>
    /\ UNCHANGED <<callVars, other>>

\* Runs that nothing kills.
NextLive ==
    \/ StartCli
    \/ Steps
    \/ Hang
    \/ ProcessExit

\* A process that is not killed goes on: the statement after the one
\* executed is executed, and each call of the script returns, raises or
\* never returns; from a call that never returns there is no step.  The
\* source files have the same number of rows each.
SpecLive == InitFiles /\ [][NextLive]_vars /\ WF_vars(Steps \/ ProcessExit)

\* --------------------------------------------------------------------- C28
\* A loader has issued at most ceil(N / B) writes, no two of them with the
\* same batch.
C28_Attempts ==
    /\ nrows[cur] # NotRead => Len(calls) <= NumBatches(nrows[cur])
    /\ \A j, k \in 1 .. Len(calls) : j # k => calls[j] # calls[k]

\* C28 as written: every run ends; a loader issues at most ceil(N / B)
\* writes and retries none; and a run that has opened its session gets to the
\* state in which it has closed it, when it completes and when a failure
\* ends it.
C28_AlwaysTerminates ==
    /\ [](C28_Attempts)
    /\ (pc # "idle") ~> (pc = "idle")
    /\ (opened = 1 /\ closed = 0) ~> (closed = 1)

\* C28, amended: a loader issues at most ceil(N / B) writes and retries
\* none; every run ends or waits for ever in a call that does not return;
\* and a run that has opened its session gets to the state in which it has
\* closed it, or in which connection.close() has raised, or waits for ever
\* in such a call.
C28_Termination ==
    /\ [](C28_Attempts)
    /\ (pc # "idle") ~> (pc \in {"idle", "hung"})
    /\ (opened = 1 /\ closed = 0) ~> (closed = 1 \/ raisedBy = "close" \/ pc = "hung")

\* A run that a failed write ended when every table held rows has closed
\* its session.
C28_Witness ==
    /\ pc = "exit" /\ raisedBy = "write"
    /\ opened = 1 /\ closed = 1
    /\ \A t \in Tables : db[t] # <<>>

\* --------------------------------------------------------------------- C29
\* The rows the loop has taken from the file are the rows of the batches
\* handed to executemany followed by the pending ones, each once and in
\* order; the pending batch is never longer than BATCH_SIZE, is shorter at
\* the top of the loop, and during a flush is the batch being written.
C29_Pending ==
    InLoader =>
        /\ Len(records) <= BATCH_SIZE
        /\ pc = "loop" => Len(records) < BATCH_SIZE
        /\ pc \in {"loop", "exec"} =>
              ConcatGood(calls, {}, Len(calls)) \o records = Iota(idx)
        /\ pc \in {"commit", "rollback"} =>
              /\ records = calls[Len(calls)]
              /\ ConcatGood(calls, {}, Len(calls)) = Iota(idx)
        /\ pc = "ret" => ConcatGood(calls, {}, Len(calls)) = Iota(nrows[cur])

\* A step that goes back to the row loop after a flush attempt, committed or
\* rolled back, leaves the pending batch empty.
C29_FlushStep ==
    (pc \in {"commit", "rollback"} /\ pc' = "loop") => records' = <<>>

\* C29: in every loader the pending batch holds at most BATCH_SIZE rows at
\* every point of the row loop, is emptied after every flush attempt, in the
\* entities loader also after a failed one, and every row is placed in
\* exactly one batch.
C29_AccumulatorBound == [](C29_Pending) /\ [][C29_FlushStep]_vars

\* The entities loader is back at the top of the row loop after its first
\* batch failed: the pending batch is empty, with rows still to come.
C29_Witness ==
    /\ pc = "loop" /\ cur = Entities
    /\ failed = {1} /\ Len(calls) = 1
    /\ records = <<>>
    /\ idx = BATCH_SIZE /\ idx < nrows[Entities]

=============================================================================
